---- MODULE Spec2Model ----
(***************************************************************************)
(* Model of dzkast/know-your-competitor: the performance endpoint          *)
(* (app/api/analyze/route.ts and its two later revisions), the synthetic   *)
(* performance generator, the landing-page analysis endpoint and the CRO   *)
(* insight engine.                                                         *)
(*                                                                         *)
(* Strings are sequences of one-character strings, so that the code's      *)
(* character-level operations (hash, regular expressions, startsWith) are  *)
(* computed and not assumed.  Milliseconds and scores are integers; the    *)
(* cumulative layout shift is kept in hundredths; prices in thousandths.   *)
(***************************************************************************)
EXTENDS Integers, Sequences, FiniteSets, TLC

VARIABLES
  mockA, mockB,        \* two direct calls of generateMockData (<<>> before the call)
  impl,                \* which revision of the performance route is deployed
  env,                 \* process.env: [apiKey: BOOLEAN, useMock: BOOLEAN]
  perfReq,             \* body of the request to the performance endpoint
  sitePc,              \* per site: position inside analyzeWebsite
  siteUrl,             \* per site: the url variable of analyzeWebsite
  siteData,            \* per site: value analyzeWebsite resolved with (<<>> is null)
  siteSource,          \* per site: where siteData came from
  apiRequests,         \* per site: requests sent to the PageSpeed API
  perfResp,            \* response of the performance endpoint (<<>> before it)
  croResults,          \* the results the CRO page holds
  croOut,              \* what generateInsights(results) returned
  landReq,             \* body of the request to the landing-page endpoint
  landPc,              \* position inside the landing-page POST
  modelId,             \* the model id POST picked ("" is <<>>)
  pagePc,              \* per url index: position of its fetch / analysis
  pageContent,         \* per url index: extracted text
  pageResult,          \* per url index: the AnalysisResult (<<>> before it)
  pageFetches,         \* per url index: page fetches issued
  llmCalls,            \* per url index: chat-completion calls issued
  landDone,            \* url indexes in the order their analysis completed
  pageLog,             \* per url index: what its page fetch and its chat call did
  landResp,            \* response of the landing-page endpoint (<<>> before it)
  html,                \* the body of a fetched page
  extracted,           \* the text kept of html (<<>> before the extraction)
  urls,                \* CROAnalyzer: the URL fields
  isAnalyzing,         \* CROAnalyzer: an analysis is in flight
  uiResults,           \* CROAnalyzer: the results state
  error,               \* CROAnalyzer: the error message (<<>> is null)
  submitted,           \* the urls the last handleAnalyze that sent a request saw
  lastEvent            \* the handler that ran last

mockVars == <<mockA, mockB>>
perfVars == <<impl, env, perfReq, sitePc, siteUrl, siteData, siteSource,
              apiRequests, perfResp>>
croVars == <<croResults, croOut>>
landVars == <<landReq, landPc, modelId, pagePc, pageContent, pageResult,
              pageFetches, llmCalls, landDone, pageLog, landResp>>
extVars == <<html, extracted>>
uiVars == <<urls, isAnalyzing, uiResults, error, submitted, lastEvent>>
vars == <<mockVars, perfVars, croVars, landVars, extVars, uiVars>>

None == "none"

\* the parts of the state a specification leaves alone
MockIdle == mockA = <<>> /\ mockB = <<>>
PerfIdle ==
  /\ impl = None /\ env = None /\ perfReq = None /\ perfResp = None
  /\ sitePc = None /\ siteUrl = None /\ siteData = None /\ siteSource = None
  /\ apiRequests = None
CroIdle == croResults = None /\ croOut = None
LandIdle ==
  /\ landReq = None /\ landPc = None /\ modelId = None /\ pagePc = None
  /\ pageContent = None /\ pageResult = None /\ pageFetches = None
  /\ llmCalls = None /\ landDone = None /\ pageLog = None /\ landResp = None
ExtIdle == html = None /\ extracted = None
UiIdle ==
  /\ urls = None /\ isAnalyzing = None /\ uiResults = None /\ error = None
  /\ submitted = None /\ lastEvent = None

(***************************************************************************)
(* Strings                                                                 *)
(***************************************************************************)
charCodeAt(c) ==
  CASE c = " " -> 32 [] c = "$" -> 36 [] c = "," -> 44 [] c = "-" -> 45
    [] c = "." -> 46 [] c = "/" -> 47
    [] c = "0" -> 48 [] c = "1" -> 49 [] c = "2" -> 50 [] c = "3" -> 51
    [] c = "4" -> 52 [] c = "5" -> 53 [] c = "6" -> 54 [] c = "7" -> 55
    [] c = "8" -> 56 [] c = "9" -> 57 [] c = ":" -> 58
    [] c = "A" -> 65 [] c = "C" -> 67 [] c = "G" -> 71 [] c = "N" -> 78
    [] c = "a" -> 97 [] c = "b" -> 98 [] c = "c" -> 99 [] c = "d" -> 100
    [] c = "e" -> 101 [] c = "f" -> 102 [] c = "g" -> 103 [] c = "h" -> 104
    [] c = "i" -> 105 [] c = "j" -> 106 [] c = "k" -> 107 [] c = "l" -> 108
    [] c = "m" -> 109 [] c = "n" -> 110 [] c = "o" -> 111 [] c = "p" -> 112
    [] c = "q" -> 113 [] c = "r" -> 114 [] c = "s" -> 115 [] c = "t" -> 116
    [] c = "u" -> 117 [] c = "v" -> 118 [] c = "w" -> 119 [] c = "x" -> 120
    [] c = "y" -> 121 [] c = "z" -> 122

\* String.prototype.toLowerCase, one character
toLowerChar(c) ==
  CASE c = "A" -> "a" [] c = "C" -> "c" [] c = "G" -> "g" [] c = "N" -> "n"
    [] c = "I" -> "i" [] c = "P" -> "p" [] c = "R" -> "r" [] c = "S" -> "s"
    [] c = "T" -> "t"
    [] OTHER -> c

toLowerCase(s) == [i \in 1..Len(s) |-> toLowerChar(s[i])]

\* String.prototype.startsWith
startsWith(s, p) == Len(s) >= Len(p) /\ SubSeq(s, 1, Len(p)) = p

\* String.prototype.includes
includes(s, p) ==
  \E i \in 1..(Len(s) - Len(p) + 1) : SubSeq(s, i, i + Len(p) - 1) = p

\* String.prototype.indexOf, 1-based; 0 when absent
indexOf(s, p) ==
  IF includes(s, p)
  THEN CHOOSE i \in 1..(Len(s) - Len(p) + 1) :
         /\ SubSeq(s, i, i + Len(p) - 1) = p
         /\ \A j \in 1..(i - 1) : SubSeq(s, j, j + Len(p) - 1) # p
  ELSE 0

S_https == <<"h","t","t","p","s",":","/","/">>
S_http == <<"h","t","t","p",":","/","/">>
S_slash == <<"/">>
S_gov == <<"g","o","v">>
S_edu == <<"e","d","u">>
S_org == <<"o","r","g">>

\* Math.round(n / d) for n >= 0, d > 0: halves round up
RoundDiv(n, d) == (2 * n + d) \div (2 * d)

Max(a, b) == IF a >= b THEN a ELSE b
Min(a, b) == IF a <= b THEN a ELSE b

(***************************************************************************)
(* The rolling hash of generateMockData.  The accumulator is a 32-bit      *)
(* integer (a & a); it is kept as two 16-bit halves <<hi, lo>> of its      *)
(* two's complement.                                                       *)
(***************************************************************************)
Two16 == 65536

hashStep(a, ch) ==
  LET low == a[2] * 31 + charCodeAt(ch)
  IN  <<(a[1] * 31 + (low \div Two16)) % Two16, low % Two16>>

RECURSIVE hashFrom(_, _, _)
hashFrom(a, url, i) ==
  IF i > Len(url) THEN a ELSE hashFrom(hashStep(a, url[i]), url, i + 1)

hashOf(url) == hashFrom(<<0, 0>>, url, 1)

\* Math.abs(hash) % m
absHashMod(h, m) ==
  LET umod == ((h[1] % m) * (Two16 % m) + (h[2] % m)) % m
      two32 == ((Two16 % m) * (Two16 % m)) % m
  IN  IF h[1] < 32768 THEN umod ELSE (two32 + m - umod) % m

(***************************************************************************)
(* websiteProfiles                                                         *)
(***************************************************************************)
D_google == <<"g","o","o","g","l","e",".","c","o","m">>
D_microsoft == <<"m","i","c","r","o","s","o","f","t",".","c","o","m">>
D_apple == <<"a","p","p","l","e",".","c","o","m">>
D_bing == <<"b","i","n","g",".","c","o","m">>
D_duckduckgo == <<"d","u","c","k","d","u","c","k","g","o",".","c","o","m">>
D_amazon == <<"a","m","a","z","o","n",".","c","o","m">>
D_ebay == <<"e","b","a","y",".","c","o","m">>
D_facebook == <<"f","a","c","e","b","o","o","k",".","c","o","m">>
D_twitter == <<"t","w","i","t","t","e","r",".","c","o","m">>
D_instagram == <<"i","n","s","t","a","g","r","a","m",".","c","o","m">>
D_oxylabs == <<"o","x","y","l","a","b","s",".","i","o">>
D_netnut == <<"n","e","t","n","u","t",".","i","o">>
D_brightdata == <<"b","r","i","g","h","t","d","a","t","a",".","c","o","m">>
D_iproyal == <<"i","p","r","o","y","a","l",".","c","o","m">>
D_example == <<"e","x","a","m","p","l","e",".","c","o","m">>
D_test == <<"t","e","s","t",".","c","o","m">>

Profile(p, s, a, b, f, l) ==
  [perf |-> p, seo |-> s, access |-> a, best |-> b, fcp |-> f, lcp |-> l]

websiteProfiles ==
  (D_google :> Profile(85, 95, 90, 88, 800, 1200)) @@
  (D_microsoft :> Profile(82, 92, 88, 85, 900, 1400)) @@
  (D_apple :> Profile(88, 85, 92, 90, 700, 1100)) @@
  (D_bing :> Profile(80, 90, 85, 82, 950, 1500)) @@
  (D_duckduckgo :> Profile(78, 88, 84, 80, 1000, 1600)) @@
  (D_amazon :> Profile(65, 82, 75, 70, 1400, 2200)) @@
  (D_ebay :> Profile(60, 80, 72, 68, 1600, 2500)) @@
  (D_facebook :> Profile(55, 70, 78, 65, 1800, 2800)) @@
  (D_twitter :> Profile(58, 72, 80, 67, 1700, 2600)) @@
  (D_instagram :> Profile(52, 68, 75, 62, 1900, 3000)) @@
  (D_oxylabs :> Profile(65, 83, 78, 81, 1378, 2678)) @@
  (D_netnut :> Profile(36, 92, 77, 54, 1994, 4294)) @@
  (D_brightdata :> Profile(72, 80, 85, 78, 1200, 2400)) @@
  (D_iproyal :> Profile(68, 75, 82, 76, 1500, 2800)) @@
  (D_example :> Profile(70, 75, 80, 75, 1300, 2000)) @@
  (D_test :> Profile(65, 70, 75, 70, 1500, 2300))

(***************************************************************************)
(* PageSpeedMetrics, flattened.  cumulativeLayoutShift is in hundredths.   *)
(***************************************************************************)
Metrics(u, score, fcp, lcp, si, tbt, cls, access, best, seo) ==
  [url |-> u, score |-> score,
   firstContentfulPaint |-> fcp, largestContentfulPaint |-> lcp,
   speedIndex |-> si, totalBlockingTime |-> tbt,
   cumulativeLayoutShift |-> cls,
   accessibility |-> access, bestPractices |-> best, seo |-> seo]

\* url.replace(/^https?:\/\//, '')
stripProtocol(url) ==
  IF startsWith(url, S_https) THEN SubSeq(url, Len(S_https) + 1, Len(url))
  ELSE IF startsWith(url, S_http) THEN SubSeq(url, Len(S_http) + 1, Len(url))
  ELSE url

\* s.replace(/\/.*$/, '')
stripPath(s) ==
  IF includes(s, S_slash) THEN SubSeq(s, 1, indexOf(s, S_slash) - 1) ELSE s

domainOf(url) == toLowerCase(stripPath(stripProtocol(url)))

basePerfOf(domain) ==
  IF includes(domain, S_gov) THEN 45
  ELSE IF includes(domain, S_edu) THEN 55
  ELSE IF includes(domain, S_org) THEN 65
  ELSE IF Len(domain) < 8 THEN 70
  ELSE 60

\* Math.max(lo, Math.min(hi, x))
clamp(lo, hi, x) == Max(lo, Min(hi, x))

\* generateMockData, known domain: the record built from the profile
profileData(url, profile) ==
  Metrics(url, profile.perf, profile.fcp, profile.lcp,
          RoundDiv(profile.lcp * 12, 10),
          RoundDiv(profile.fcp * 2, 10),
          RoundDiv((100 - profile.perf) * 2, 10),
          profile.access, profile.best, profile.seo)

\* generateMockData, unknown domain: the record derived from the hash
hashData(url, domain) ==
  LET hash == hashOf(url)
      variation == absHashMod(hash, 20) - 10
      perfScore == clamp(20, 95, basePerfOf(domain) + variation)
  IN  Metrics(url, perfScore,
              800 + (100 - perfScore) * 20,
              1200 + (100 - perfScore) * 35,
              1500 + (100 - perfScore) * 40,
              50 + (100 - perfScore) * 8,
              RoundDiv((100 - perfScore) * 3, 10),
              clamp(50, 95, 75 + variation),
              clamp(50, 95, 80 + variation),
              clamp(40, 95, 70 + variation))

\* generateMockData of the profile-table revision
generateMockData(url) ==
  LET domain == domainOf(url) IN
  IF domain \in DOMAIN websiteProfiles
  THEN profileData(url, websiteProfiles[domain])
  ELSE hashData(url, domain)

\* generateMockData of the earlier revision; r1..r4 are the values of its four
\* calls of variation() = Math.random() * 20 - 10, in tenths
generateMockDataRandom(url, r1, r2, r3, r4) ==
  LET hash == hashOf(url)
      basePerformance == 50 + absHashMod(hash, 40)
  IN  Metrics(url,
              RoundDiv(clamp(100, 1000, basePerformance * 10 + r1), 10),
              1200 + absHashMod(hash, 2000),
              2500 + absHashMod(hash, 3000),
              3000 + absHashMod(hash, 2000),
              100 + absHashMod(hash, 400),
              absHashMod(hash, 20),
              RoundDiv(clamp(600, 1000, 800 + r2), 10),
              RoundDiv(clamp(600, 1000, 850 + r3), 10),
              RoundDiv(clamp(500, 1000, 750 + r4), 10))

(***************************************************************************)
(* Direct calls of the synthetic generator                                 *)
(***************************************************************************)
S_pricing == <<"/","p","r","i","c","i","n","g">>
D_usagov == <<"u","s","a",".","g","o","v">>
D_mitedu == <<"m","i","t",".","e","d","u">>
D_w3org == <<"w","3",".","o","r","g">>
D_abio == <<"a","b",".","i","o">>
D_longdomain == <<"l","o","n","g","d","o","m","a","i","n",".","n","e","t">>
D_wwwgoogle == <<"w","w","w",".","g","o","o","g","l","e",".","c","o","m">>
D_Google == <<"G","o","o","g","l","e",".","c","o","m">>

MockUrls ==
  {S_https \o d : d \in DOMAIN websiteProfiles} \cup
  { D_google, S_http \o D_google \o S_pricing, S_https \o D_Google,
    S_https \o D_wwwgoogle, S_https \o D_usagov, S_http \o D_mitedu,
    S_https \o D_w3org \o S_pricing, S_https \o D_abio,
    S_https \o D_longdomain, D_longdomain \o S_pricing,
    S_http \o D_abio \o S_pricing, S_https \o D_mitedu \o S_pricing }

\* values of variation() = Math.random() * 20 - 10, in tenths: [-100, 100)
VariationTenths == {-100, 95}

MockCall(rev, u, d) == [rev |-> rev, url |-> u, data |-> d]

InitMock ==
  mockA = <<>> /\ mockB = <<>> /\ PerfIdle /\ CroIdle /\ LandIdle /\ ExtIdle /\ UiIdle

\* a call lands in the first free slot
Record(c) ==
  /\ mockB = <<>>
  /\ mockA' = IF mockA = <<>> THEN <<c>> ELSE mockA
  /\ mockB' = IF mockA = <<>> THEN mockB ELSE <<c>>

\* a caller invokes generateMockData(url) of the profile-table revision
CallGenerateMockData ==
  \E u \in MockUrls :
    /\ Record(MockCall("profiled", u, generateMockData(u)))
    /\ UNCHANGED <<perfVars, croVars, landVars, extVars, uiVars>>

\* a caller invokes generateMockData(url) of the earlier revision
CallGenerateMockDataRandom ==
  \E u \in MockUrls :
    \E r1 \in VariationTenths, r2 \in VariationTenths,
       r3 \in VariationTenths, r4 \in VariationTenths :
      /\ Record(MockCall("random", u, generateMockDataRandom(u, r1, r2, r3, r4)))
      /\ UNCHANGED <<perfVars, croVars, landVars, extVars, uiVars>>

NextMock == CallGenerateMockData \/ CallGenerateMockDataRandom

SpecMock == InitMock /\ [][NextMock]_vars

\* mockA and mockB hold at most one call record each
MockCalls == {mockA[i] : i \in DOMAIN mockA} \cup {mockB[i] : i \in DOMAIN mockB}


\* C4: two calls of generateMockData with the same URL (same revision) return
\* identical values in every field.
C4_Deterministic ==
  \A c1 \in MockCalls, c2 \in MockCalls :
    (c1.rev = c2.rev /\ c1.url = c2.url) => c1.data = c2.data

\* C5: every result of the synthetic generator has FCP < LCP < speed index
\* and a cumulative layout shift between 0 and 1.
C5_OrderedMetrics ==
  \A c \in MockCalls :
    /\ c.data.firstContentfulPaint < c.data.largestContentfulPaint
    /\ c.data.largestContentfulPaint < c.data.speedIndex
    /\ c.data.cumulativeLayoutShift >= 0
    /\ c.data.cumulativeLayoutShift <= 100

WorseOrEqual(low, high) ==
  /\ low.firstContentfulPaint >= high.firstContentfulPaint
  /\ low.largestContentfulPaint >= high.largestContentfulPaint
  /\ low.speedIndex >= high.speedIndex
  /\ low.totalBlockingTime >= high.totalBlockingTime
  /\ low.cumulativeLayoutShift >= high.cumulativeLayoutShift

\* C6: of any two results of the generator (table or hash), the one with the
\* lower score has no sub-metric lower than the other's.
C6_LowerScoreWorse ==
  \A c1 \in MockCalls, c2 \in MockCalls :
    (c1.rev = c2.rev /\ c1.data.score < c2.data.score)
      => WorseOrEqual(c1.data, c2.data)

(***************************************************************************)
(* The performance endpoint: POST, analyzeWebsite, generateInsights.       *)
(* Three revisions of the route exist: "basic" (app/api/analyze/route.ts), *)
(* "random" (mock data with Math.random) and "profiled" (profile table).   *)
(***************************************************************************)
Revisions == {"basic", "random", "profiled"}
Sites == {"yours", "competitor"}

\* a request value that is not a string (a JSON number, say)
NonString == <<"#number">>
\* a missing or empty request field
Missing == <<>>

PerfUrls ==
  { S_https \o D_google, D_example, S_https \o D_abio, S_http \o D_brightdata }

\* a category score null in the API reply; an audit missing from the reply
NullScore == -1
MissingAudit == -1

\* well-formed bodies of the PageSpeed API: category scores in thousandths
\* (0..1 in the reply), audit numericValues in ms, layout shift in hundredths
LiveReply(perf, access, best, seo, fcp, lcp, si, tbt, cls) ==
  [perf |-> perf, access |-> access, best |-> best, seo |-> seo,
   fcp |-> fcp, lcp |-> lcp, si |-> si, tbt |-> tbt, cls |-> cls]

LiveReplies ==
  { LiveReply(800, 900, 850, 900, 1000, 2000, 2500, 100, 5),
    LiveReply(600, 700, 800, 600, 1800, 5000, 5200, 400, 25),
    LiveReply(855, NullScore, 1000, 700, 900, MissingAudit, 2100, 0, 0) }

\* what the fetch of the PageSpeed API settles with: a rejection, a non-OK
\* response (with or without error.code 429 in its body), an OK response whose
\* body does not parse or lacks lighthouseResult, or an OK well-formed reply
NoReply == LiveReply(NullScore, NullScore, NullScore, NullScore, MissingAudit,
                     MissingAudit, MissingAudit, MissingAudit, MissingAudit)

Outcome(kind, status, code429, wellFormed, reply) ==
  [kind |-> kind, status |-> status, code429 |-> code429,
   wellFormed |-> wellFormed, reply |-> reply]

FetchOutcomes ==
  {Outcome("reject", 0, FALSE, FALSE, NoReply)} \cup
  {Outcome("response", st, c, FALSE, NoReply) : st \in {429, 500}, c \in BOOLEAN} \cup
  {Outcome("response", 200, FALSE, FALSE, NoReply)} \cup
  {Outcome("response", 200, FALSE, TRUE, d) : d \in LiveReplies}

\* Math.round(categories.x.score * 100); null * 100 is 0
scoreOf(x) == IF x = NullScore THEN 0 ELSE RoundDiv(x, 10)

\* audits[k]?.numericValue || 0
auditOf(x) == IF x = MissingAudit THEN 0 ELSE x

\* the record analyzeWebsite builds from a well-formed reply
liveData(url, d) ==
  Metrics(url, scoreOf(d.perf), auditOf(d.fcp), auditOf(d.lcp), auditOf(d.si),
          auditOf(d.tbt), auditOf(d.cls),
          scoreOf(d.access), scoreOf(d.best), scoreOf(d.seo))

\* if (!url.startsWith('http://') && !url.startsWith('https://')) url = `https://${url}`
normalizeUrl(url) ==
  IF ~startsWith(url, S_http) /\ ~startsWith(url, S_https)
  THEN S_https \o url ELSE url

\* generateMockData of revision rev; r holds the four Math.random draws
mockFor(rev, url, r) ==
  IF rev = "random"
  THEN generateMockDataRandom(url, r[1], r[2], r[3], r[4])
  ELSE generateMockData(url)

SiteState(pc, url, data, source, requests) ==
  [pc |-> pc, url |-> url, data |-> data, source |-> source, requests |-> requests]

\* analyzeWebsite up to its first await: the url is normalised, mock data is
\* returned when asked for (or, "profiled", when there is no key), otherwise
\* the request to the PageSpeed API is sent.
analyzeWebsiteBegin(rev, rawUrl, useMockData, apiKey, r) ==
  IF rawUrl = NonString
  THEN \* url.startsWith is not a function: caught; generateMockData(url)
       \* then throws from inside the catch block
       IF rev = "basic"
       THEN SiteState("done", rawUrl, <<>>, "null", 0)
       ELSE SiteState("threw", rawUrl, <<>>, "none", 0)
  ELSE LET url == normalizeUrl(rawUrl) IN
       IF rev # "basic" /\ useMockData
       THEN SiteState("done", url, <<mockFor(rev, url, r)>>, "mock", 0)
       ELSE IF rev = "profiled" /\ ~apiKey
       THEN SiteState("done", url, <<mockFor(rev, url, r)>>, "mock", 0)
       ELSE SiteState("fetching", url, <<>>, "none", 1)

\* analyzeWebsite from the settling of its fetch to its return
analyzeWebsiteSettle(rev, url, o, r) ==
  LET null == [data |-> <<>>, source |-> "null"]
      mock == [data |-> <<mockFor(rev, url, r)>>, source |-> "mock"]
      live == [data |-> <<liveData(url, o.reply)>>, source |-> "live"]
  IN  IF o.kind = "reject"
      THEN (IF rev = "basic" THEN null ELSE mock)
      ELSE IF o.status # 200
      THEN (IF rev = "basic" THEN null
            ELSE IF rev = "random"
            THEN (IF o.status = 429 \/ o.code429 THEN mock ELSE null)
            ELSE mock)
      ELSE IF ~o.wellFormed
      THEN \* response.json() rejects or data.lighthouseResult is undefined
           (IF rev = "basic" THEN null ELSE mock)
      ELSE live

\* one insight sentence: which template, and the numerals in its text
Sentence(kind, numbers) == [kind |-> kind, numbers |-> numbers]

\* generateInsights whose SEO sentence embeds the competitor's score, not the gap
generateInsights_seoScore(yourSite, competitorSite) ==
  IF yourSite = <<>> \/ competitorSite = <<>>
  THEN (IF yourSite = <<>> THEN <<Sentence("noYours", <<>>)>> ELSE <<>>) \o
       (IF competitorSite = <<>> THEN <<Sentence("noCompetitor", <<>>)>> ELSE <<>>)
  ELSE LET y == yourSite[1]
           c == competitorSite[1]
       IN  (IF y.score > c.score
            THEN <<Sentence("perfLead", <<y.score - c.score>>)>>
            ELSE IF c.score > y.score
            THEN <<Sentence("perfBehind", <<c.score - y.score>>)>>
            ELSE <<Sentence("perfSimilar", <<>>)>>) \o
           (IF 10 * y.largestContentfulPaint > 12 * c.largestContentfulPaint
            THEN <<Sentence("lcp", <<20>>)>> ELSE <<>>) \o
           (IF y.seo < c.seo
            THEN <<Sentence("seo", <<c.seo>>)>> ELSE <<>>) \o
           (IF y.accessibility < c.accessibility
            THEN <<Sentence("accessibility", <<c.accessibility - y.accessibility>>)>>
            ELSE <<>>)

\* generateInsights that emits the SEO sentence for any difference of the
\* SEO scores, and before the LCP sentence
generateInsights_seoAnyGap(yourSite, competitorSite) ==
  IF yourSite = <<>> \/ competitorSite = <<>>
  THEN (IF yourSite = <<>> THEN <<Sentence("noYours", <<>>)>> ELSE <<>>) \o
       (IF competitorSite = <<>> THEN <<Sentence("noCompetitor", <<>>)>> ELSE <<>>)
  ELSE LET y == yourSite[1]
           c == competitorSite[1]
       IN  (IF y.score > c.score
            THEN <<Sentence("perfLead", <<y.score - c.score>>)>>
            ELSE IF c.score > y.score
            THEN <<Sentence("perfBehind", <<c.score - y.score>>)>>
            ELSE <<Sentence("perfSimilar", <<>>)>>) \o
           (IF y.seo # c.seo
            THEN <<Sentence("seo", <<c.seo - y.seo>>)>> ELSE <<>>) \o
           (IF 10 * y.largestContentfulPaint > 12 * c.largestContentfulPaint
            THEN <<Sentence("lcp", <<20>>)>> ELSE <<>>) \o
           (IF y.accessibility < c.accessibility
            THEN <<Sentence("accessibility", <<c.accessibility - y.accessibility>>)>>
            ELSE <<>>)

\* generateInsights(yourSite, competitorSite); <<>> is null
generateInsights(yourSite, competitorSite) ==
  IF yourSite = <<>> \/ competitorSite = <<>>
  THEN (IF yourSite = <<>> THEN <<Sentence("noYours", <<>>)>> ELSE <<>>) \o
       (IF competitorSite = <<>> THEN <<Sentence("noCompetitor", <<>>)>> ELSE <<>>)
  ELSE LET y == yourSite[1]
           c == competitorSite[1]
       IN  (IF y.score > c.score
            THEN <<Sentence("perfLead", <<y.score - c.score>>)>>
            ELSE IF c.score > y.score
            THEN <<Sentence("perfBehind", <<c.score - y.score>>)>>
            ELSE <<Sentence("perfSimilar", <<>>)>>) \o
           (IF 10 * y.largestContentfulPaint > 12 * c.largestContentfulPaint
            THEN <<Sentence("lcp", <<20>>)>> ELSE <<>>) \o
           (IF y.seo < c.seo
            THEN <<Sentence("seo", <<c.seo - y.seo>>)>> ELSE <<>>) \o
           (IF y.accessibility < c.accessibility
            THEN <<Sentence("accessibility", <<c.accessibility - y.accessibility>>)>>
            ELSE <<>>)

\* performanceWinner with >= where the code has >
performanceWinner_ge(yourSiteData, competitorSiteData) ==
  IF yourSiteData # <<>> /\ competitorSiteData # <<>>
  THEN IF yourSiteData[1].score >= competitorSiteData[1].score THEN "yours"
       ELSE IF competitorSiteData[1].score > yourSiteData[1].score THEN "competitor"
       ELSE "tie"
  ELSE "tie"

\* POST: the winner
performanceWinner(yourSiteData, competitorSiteData) ==
  IF yourSiteData # <<>> /\ competitorSiteData # <<>>
  THEN IF yourSiteData[1].score > competitorSiteData[1].score THEN "yours"
       ELSE IF competitorSiteData[1].score > yourSiteData[1].score THEN "competitor"
       ELSE "tie"
  ELSE "tie"

Response(status, winner, insights, y, c) ==
  [status |-> status, performanceWinner |-> winner, insights |-> insights,
   yourSite |-> y, competitorSite |-> c]

ErrorResponse(status) == Response(status, "none", <<>>, <<>>, <<>>)

\* the Math.random draws of one generateMockData call of revision rev
Draws == { <<-100, -100, -100, -100>>, <<95, 95, 95, 95>>, <<-100, 95, 0, 40>> }
DrawsOf(rev) == IF rev = "random" THEN Draws ELSE {<<0, 0, 0, 0>>}

InitPerf ==
  /\ MockIdle /\ CroIdle /\ LandIdle /\ ExtIdle /\ UiIdle
  /\ impl \in Revisions
  /\ env \in [apiKey : BOOLEAN, useMock : BOOLEAN]
  /\ perfReq = <<>>
  /\ sitePc = [s \in Sites |-> "idle"]
  /\ siteUrl = [s \in Sites |-> <<>>]
  /\ siteData = [s \in Sites |-> <<>>]
  /\ siteSource = [s \in Sites |-> "none"]
  /\ apiRequests = [s \in Sites |-> 0]
  /\ perfResp = <<>>

\* POST, request.json() throws: the catch answers 500
PostMalformedBody ==
  /\ perfReq = <<>>
  /\ perfReq' = <<[malformed |-> TRUE, yourUrl |-> Missing, competitorUrl |-> Missing]>>
  /\ perfResp' = <<ErrorResponse(500)>>
  /\ UNCHANGED <<mockVars, croVars, landVars, extVars, uiVars, impl, env, sitePc, siteUrl, siteData, siteSource, apiRequests>>

\* POST, !yourUrl || !competitorUrl: 400
PostMissingUrl ==
  \E y \in PerfUrls \cup {Missing, NonString}, c \in PerfUrls \cup {Missing, NonString} :
    /\ perfReq = <<>>
    /\ y = Missing \/ c = Missing
    /\ perfReq' = <<[malformed |-> FALSE, yourUrl |-> y, competitorUrl |-> c]>>
    /\ perfResp' = <<ErrorResponse(400)>>
    /\ UNCHANGED <<mockVars, croVars, landVars, extVars, uiVars, impl, env, sitePc, siteUrl, siteData, siteSource, apiRequests>>

\* POST with both urls: both analyzeWebsite calls run to their first await
PostAnalyze ==
  \E y \in PerfUrls \cup {NonString}, c \in PerfUrls \cup {NonString},
     ry \in DrawsOf(impl), rc \in DrawsOf(impl) :
    LET useMockData ==
          IF impl = "profiled" THEN env.useMock \/ ~env.apiKey ELSE env.useMock
        st == [s \in Sites |->
                 IF s = "yours"
                 THEN analyzeWebsiteBegin(impl, y, useMockData, env.apiKey, ry)
                 ELSE analyzeWebsiteBegin(impl, c, useMockData, env.apiKey, rc)]
    IN  /\ perfReq = <<>>
        /\ perfReq' = <<[malformed |-> FALSE, yourUrl |-> y, competitorUrl |-> c]>>
        /\ sitePc' = [s \in Sites |-> st[s].pc]
        /\ siteUrl' = [s \in Sites |-> st[s].url]
        /\ siteData' = [s \in Sites |-> st[s].data]
        /\ siteSource' = [s \in Sites |-> st[s].source]
        /\ apiRequests' = [s \in Sites |-> st[s].requests]
        /\ UNCHANGED <<mockVars, croVars, landVars, extVars, uiVars, impl, env, perfResp>>

\* the fetch of one site settles and analyzeWebsite returns
FetchSettles ==
  \E s \in Sites, o \in FetchOutcomes, r \in DrawsOf(impl) :
    LET res == analyzeWebsiteSettle(impl, siteUrl[s], o, r) IN
    /\ sitePc[s] = "fetching"
    /\ sitePc' = [sitePc EXCEPT ![s] = "done"]
    /\ siteData' = [siteData EXCEPT ![s] = res.data]
    /\ siteSource' = [siteSource EXCEPT ![s] = res.source]
    /\ UNCHANGED <<mockVars, croVars, landVars, extVars, uiVars, impl, env, perfReq, siteUrl, apiRequests, perfResp>>

\* Promise.all rejects as soon as one analyzeWebsite has thrown: 500
PerfRespondError ==
  /\ perfResp = <<>>
  /\ \E s \in Sites : sitePc[s] = "threw"
  /\ perfResp' = <<ErrorResponse(500)>>
  /\ UNCHANGED <<mockVars, croVars, landVars, extVars, uiVars, impl, env, perfReq, sitePc, siteUrl, siteData, siteSource, apiRequests>>

\* both results are in: winner, insights, 200
PerfRespond ==
  /\ perfResp = <<>>
  /\ \A s \in Sites : sitePc[s] = "done"
  /\ perfResp' = <<Response(200,
                     performanceWinner(siteData["yours"], siteData["competitor"]),
                     generateInsights(siteData["yours"], siteData["competitor"]),
                     siteData["yours"], siteData["competitor"])>>
  /\ UNCHANGED <<mockVars, croVars, landVars, extVars, uiVars, impl, env, perfReq, sitePc, siteUrl, siteData, siteSource, apiRequests>>

NextPerf ==
  \/ PostMalformedBody
  \/ PostMissingUrl
  \/ PostAnalyze
  \/ FetchSettles
  \/ PerfRespondError
  \/ PerfRespond

SpecPerf == InitPerf /\ [][NextPerf]_vars

Responded == perfResp # <<>>
Compared ==
  /\ Responded /\ perfResp[1].status = 200
  /\ perfResp[1].yourSite # <<>> /\ perfResp[1].competitorSite # <<>>
Abs(x) == IF x < 0 THEN -x ELSE x

\* C2: when the PageSpeed API answers with a non-success status or a step
\* throws, analyzeWebsite returns synthesized data: a call that sent its
\* request never ends in null or in an exception.
C2_NeverNoData ==
  \A s \in Sites :
    (apiRequests[s] > 0 /\ sitePc[s] # "fetching") =>
      (sitePc[s] = "done" /\ siteSource[s] \in {"mock", "live"})

\* C3: without GOOGLE_PAGESPEED_API_KEY every call of analyzeWebsite (on a
\* string url) returns synthesized data, does not raise and sends no request
\* to the PageSpeed API.
C3_NoKeyMeansFallback ==
  (Responded /\ ~env.apiKey) =>
    \A s \in Sites :
      (sitePc[s] # "idle" /\ siteUrl[s] # NonString) =>
        (apiRequests[s] = 0 /\ sitePc[s] = "done" /\ siteSource[s] = "mock")

\* C7: with both results present, performanceWinner is 'yours', 'competitor'
\* or 'tie' exactly as your score is greater, smaller or equal, and the first
\* insight names the same side and states the absolute score difference.
C7_WinnerMatchesFirstInsight ==
  Compared =>
    LET r == perfResp[1]
        y == r.yourSite[1].score
        c == r.competitorSite[1].score
        first == r.insights[1]
    IN  /\ (r.performanceWinner = "yours") <=> (y > c)
        /\ (r.performanceWinner = "competitor") <=> (c > y)
        /\ (r.performanceWinner = "tie") <=> (y = c)
        /\ (r.performanceWinner = "yours") <=>
             (first = Sentence("perfLead", <<Abs(y - c)>>))
        /\ (r.performanceWinner = "competitor") <=>
             (first = Sentence("perfBehind", <<Abs(y - c)>>))
        /\ (r.performanceWinner = "tie") <=> (first.kind = "perfSimilar")

\* yours = 80, competitor = 60: winner 'yours', a 20-point lead
C7_Witness ==
  /\ Compared
  /\ perfResp[1].yourSite[1].score = 80
  /\ perfResp[1].competitorSite[1].score = 60
  /\ perfResp[1].performanceWinner = "yours"
  /\ perfResp[1].insights[1] = Sentence("perfLead", <<20>>)

\* the readings of "how much faster the competitor's LCP is", in percent
LcpGaps(y, c) ==
  {RoundDiv(100 * (y - c), y)} \cup
  (IF c > 0 THEN {RoundDiv(100 * (y - c), c)} ELSE {})

ScoreGapsEmbedded(r) ==
  LET y == r.yourSite[1]
      c == r.competitorSite[1]
  IN  \A i \in DOMAIN r.insights :
        LET t == r.insights[i] IN
        /\ t.kind \in {"perfLead", "perfBehind"} => t.numbers = <<Abs(y.score - c.score)>>
        /\ t.kind = "seo" => t.numbers = <<c.seo - y.seo>>
        /\ t.kind = "accessibility" => t.numbers = <<c.accessibility - y.accessibility>>

\* C8 as stated: every gap sentence (performance, LCP, SEO, accessibility)
\* embeds the size of its gap as an integer.
C8_EverySentenceEmbedsGap ==
  Compared =>
    /\ ScoreGapsEmbedded(perfResp[1])
    /\ \A i \in DOMAIN perfResp[1].insights :
         perfResp[1].insights[i].kind = "lcp" =>
           \E g \in LcpGaps(perfResp[1].yourSite[1].largestContentfulPaint,
                            perfResp[1].competitorSite[1].largestContentfulPaint) :
             perfResp[1].insights[i].numbers = <<g>>

\* C8 amended: the performance, SEO and accessibility sentences embed the
\* integer size of their gap; the LCP sentence always reads "20%", whatever
\* the ratio of the two LCP values.
C8_ScoreSentencesEmbedGap ==
  Compared =>
    /\ ScoreGapsEmbedded(perfResp[1])
    /\ \A i \in DOMAIN perfResp[1].insights :
         perfResp[1].insights[i].kind = "lcp" =>
           perfResp[1].insights[i].numbers = <<20>>

\* all four sentences emitted, the LCP gap being far from 20%
C8_Witness ==
  /\ Compared
  /\ Len(perfResp[1].insights) = 4
  /\ perfResp[1].insights[3].kind = "seo"
  /\ perfResp[1].insights[3].numbers = <<30>>
  /\ perfResp[1].insights[4].kind = "accessibility"
  /\ perfResp[1].yourSite[1].largestContentfulPaint = 5000
  /\ perfResp[1].competitorSite[1].largestContentfulPaint = 2000

(***************************************************************************)
(* The CRO insight engine: getDomain, parsePrice, generateInsights of the  *)
(* analyzer page.                                                          *)
(***************************************************************************)
S_www == <<"w","w","w",".">>
Digits == {"0","1","2","3","4","5","6","7","8","9"}

digitValue(c) ==
  CASE c = "0" -> 0 [] c = "1" -> 1 [] c = "2" -> 2 [] c = "3" -> 3
    [] c = "4" -> 4 [] c = "5" -> 5 [] c = "6" -> 6 [] c = "7" -> 7
    [] c = "8" -> 8 [] c = "9" -> 9

\* does new URL(url) succeed: the urls of the model are either
\* http(s)://host[/path] with a non-empty host, or have no scheme at all
parsesAsUrl(url) ==
  /\ startsWith(url, S_http) \/ startsWith(url, S_https)
  /\ stripPath(stripProtocol(url)) # <<>>

\* s.replace('www.', ''): the first occurrence, wherever it is
removeFirstWww(s) ==
  LET i == indexOf(s, S_www) IN
  IF i = 0 THEN s ELSE SubSeq(s, 1, i - 1) \o SubSeq(s, i + Len(S_www), Len(s))

\* getDomain(url)
getDomain(url) ==
  IF parsesAsUrl(url)
  THEN removeFirstWww(toLowerCase(stripPath(stripProtocol(url))))
  ELSE url

\* the length of the longest prefix of s[i..] made of characters of set cs
RECURSIVE runLength(_, _, _)
runLength(s, i, cs) ==
  IF i > Len(s) \/ s[i] \notin cs THEN 0 ELSE 1 + runLength(s, i + 1, cs)

\* value of a string of digits
RECURSIVE digitsValue(_)
digitsValue(ds) ==
  IF ds = <<>> THEN 0
  ELSE digitsValue(SubSeq(ds, 1, Len(ds) - 1)) * 10 + digitValue(ds[Len(ds)])

Pow10(n) == IF n = 0 THEN 1 ELSE IF n = 1 THEN 10 ELSE IF n = 2 THEN 100 ELSE 1000

\* the fraction digits fs as thousandths
fractionMilli(fs) ==
  LET kept == SubSeq(fs, 1, Min(Len(fs), 3)) IN
  digitsValue(kept) * Pow10(3 - Len(kept))

NullPrice == [kind |-> "null", milli |-> 0]
NaNPrice == [kind |-> "nan", milli |-> 0]
NumPrice(m) == [kind |-> "num", milli |-> m]

\* parseFloat of a string of digits and dots: digits, then optionally a dot
\* and digits; NaN when there is no digit in that prefix.  In thousandths.
parseFloatRun(run) ==
  LET n == runLength(run, 1, Digits)
      hasDot == n < Len(run) /\ run[n + 1] = "."
      f == IF hasDot THEN runLength(run, n + 2, Digits) ELSE 0
  IN  IF n = 0 /\ f = 0 THEN NaNPrice
      ELSE NumPrice(digitsValue(SubSeq(run, 1, n)) * 1000
                    + fractionMilli(SubSeq(run, n + 2, n + 1 + f)))

\* parsePrice(priceStr): priceStr.match(/[\d.]+/), then parseFloat
parsePrice(priceStr) ==
  LET cs == Digits \cup {"."}
      starts == {i \in 1..Len(priceStr) : priceStr[i] \in cs}
  IN  IF starts = {} THEN NullPrice
      ELSE LET i == CHOOSE k \in starts : \A j \in starts : k <= j
               n == runLength(priceStr, i, cs)
           IN  parseFloatRun(SubSeq(priceStr, i, i + n - 1))

\* a number used as a condition: neither NaN nor 0
truthy(numPrice) == numPrice.kind = "num" /\ numPrice.milli # 0

\* (numPrice || 0)
orZero(numPrice) == IF truthy(numPrice) THEN numPrice.milli ELSE 0

Analysis(headline, hasPricing, price, hasDiscount, hasFreeTrial) ==
  [mainHeadline |-> headline, hasPricing |-> hasPricing,
   pricingStartsFrom |-> price, hasDiscount |-> hasDiscount,
   hasFreeTrial |-> hasFreeTrial]

AnalysisResult(url, analysis) == [url |-> url, analysis |-> analysis]

\* one insight: its type, which rule produced it, and the variable parts of
\* its text: the sites named first and second, the price strings and the
\* advantage labels that go with them, and the numerals
Insight(type, kind, first, second, prices, firstAdvantages, secondAdvantages, numbers) ==
  [type |-> type, kind |-> kind, first |-> first, second |-> second,
   prices |-> prices, firstAdvantages |-> firstAdvantages,
   secondAdvantages |-> secondAdvantages, numbers |-> numbers]

\* domainsOf that names every site of a group after the group's first
domainsOf_first(xs) == [i \in 1..Len(xs) |-> getDomain(xs[1].url)]

\* xs.map(r => getDomain(r.url))
domainsOf(xs) == [i \in 1..Len(xs) |-> getDomain(xs[i].url)]

\* xs.some(r => r.url === url)
someUrl(xs, url) == \E i \in 1..Len(xs) : xs[i].url = url

\* [...prices].sort((a, b) => (a.numPrice || 0) - (b.numPrice || 0)): stable
RECURSIVE insertByPrice(_, _)
insertByPrice(sorted, p) ==
  IF sorted = <<>> THEN <<p>>
  ELSE IF orZero(sorted[Len(sorted)].numPrice) <= orZero(p.numPrice)
  THEN Append(sorted, p)
  ELSE Append(insertByPrice(SubSeq(sorted, 1, Len(sorted) - 1), p), sorted[Len(sorted)])

RECURSIVE sortByPrice(_)
sortByPrice(prices) ==
  IF prices = <<>> THEN <<>>
  ELSE insertByPrice(sortByPrice(SubSeq(prices, 1, Len(prices) - 1)), prices[Len(prices)])

\* priceInsight that compares (numPrice || 0) as the sort does, without first
\* requiring both prices to be numbers
priceInsight_orZero(results, withPricing) ==
  IF Len(withPricing) < 2 THEN <<>>
  ELSE LET all == [i \in 1..Len(withPricing) |->
                     [domain |-> getDomain(withPricing[i].url),
                      price |-> withPricing[i].analysis.pricingStartsFrom,
                      numPrice |-> parsePrice(withPricing[i].analysis.pricingStartsFrom)]]
           prices == SelectSeq(all, LAMBDA q : q.numPrice # NullPrice)
       IN  IF Len(prices) < 2 THEN <<>>
           ELSE LET sorted == sortByPrice(prices)
                    lowest == sorted[1]
                    highest == sorted[Len(sorted)]
                IN  IF orZero(lowest.numPrice) < orZero(highest.numPrice)
                    THEN <<Insight(
                            IF lowest.domain = getDomain(results[1].url)
                            THEN "advantage" ELSE "disadvantage",
                            "price",
                            <<lowest.domain>>, <<highest.domain>>,
                            <<lowest.price, highest.price>>, <<>>, <<>>,
                            IF truthy(lowest.numPrice)
                            THEN <<RoundDiv((highest.numPrice.milli - lowest.numPrice.milli) * 100,
                                            lowest.numPrice.milli)>>
                            ELSE <<>>)>>
                    ELSE <<>>

\* the price comparison of generateInsights
priceInsight(results, withPricing) ==
  IF Len(withPricing) < 2 THEN <<>>
  ELSE LET all == [i \in 1..Len(withPricing) |->
                     [domain |-> getDomain(withPricing[i].url),
                      price |-> withPricing[i].analysis.pricingStartsFrom,
                      numPrice |-> parsePrice(withPricing[i].analysis.pricingStartsFrom)]]
           prices == SelectSeq(all, LAMBDA q : q.numPrice # NullPrice)
       IN  IF Len(prices) < 2 THEN <<>>
           ELSE LET sorted == sortByPrice(prices)
                    lowest == sorted[1]
                    highest == sorted[Len(sorted)]
                IN  IF truthy(lowest.numPrice) /\ truthy(highest.numPrice)
                       /\ lowest.numPrice.milli < highest.numPrice.milli
                    THEN <<Insight(
                            IF lowest.domain = getDomain(results[1].url)
                            THEN "advantage" ELSE "disadvantage",
                            "price",
                            <<lowest.domain>>, <<highest.domain>>,
                            <<lowest.price, highest.price>>, <<>>, <<>>,
                            <<RoundDiv((highest.numPrice.milli - lowest.numPrice.milli) * 100,
                                       lowest.numPrice.milli)>>)>>
                    ELSE <<>>

\* positioningInsight that compares the first two results of any longer list
positioningInsight_firstTwo(results) ==
  IF Len(results) < 2 THEN <<>>
  ELSE LET a == results[1].analysis
           b == results[2].analysis
           firstAdvantages ==
             (IF a.hasPricing /\ ~b.hasPricing THEN <<"transparent pricing">> ELSE <<>>) \o
             (IF a.hasDiscount /\ ~b.hasDiscount THEN <<"active promotions">> ELSE <<>>) \o
             (IF a.hasFreeTrial /\ ~b.hasFreeTrial THEN <<"free trial">> ELSE <<>>)
           secondAdvantages ==
             (IF ~a.hasPricing /\ b.hasPricing THEN <<"transparent pricing">> ELSE <<>>) \o
             (IF ~a.hasDiscount /\ b.hasDiscount THEN <<"active promotions">> ELSE <<>>) \o
             (IF ~a.hasFreeTrial /\ b.hasFreeTrial THEN <<"free trial">> ELSE <<>>)
       IN  IF firstAdvantages # <<>> \/ secondAdvantages # <<>>
           THEN <<Insight("recommendation", "positioning",
                          IF firstAdvantages # <<>> THEN <<getDomain(results[1].url)>> ELSE <<>>,
                          IF secondAdvantages # <<>> THEN <<getDomain(results[2].url)>> ELSE <<>>,
                          <<>>, firstAdvantages, secondAdvantages, <<>>)>>
           ELSE <<>>

\* the head-to-head sentence for exactly two results
positioningInsight(results) ==
  IF Len(results) # 2 THEN <<>>
  ELSE LET a == results[1].analysis
           b == results[2].analysis
           firstAdvantages ==
             (IF a.hasPricing /\ ~b.hasPricing THEN <<"transparent pricing">> ELSE <<>>) \o
             (IF a.hasDiscount /\ ~b.hasDiscount THEN <<"active promotions">> ELSE <<>>) \o
             (IF a.hasFreeTrial /\ ~b.hasFreeTrial THEN <<"free trial">> ELSE <<>>)
           secondAdvantages ==
             (IF ~a.hasPricing /\ b.hasPricing THEN <<"transparent pricing">> ELSE <<>>) \o
             (IF ~a.hasDiscount /\ b.hasDiscount THEN <<"active promotions">> ELSE <<>>) \o
             (IF ~a.hasFreeTrial /\ b.hasFreeTrial THEN <<"free trial">> ELSE <<>>)
       IN  IF firstAdvantages # <<>> \/ secondAdvantages # <<>>
           THEN <<Insight("recommendation", "positioning",
                          IF firstAdvantages # <<>> THEN <<getDomain(results[1].url)>> ELSE <<>>,
                          IF secondAdvantages # <<>> THEN <<getDomain(results[2].url)>> ELSE <<>>,
                          <<>>, firstAdvantages, secondAdvantages, <<>>)>>
           ELSE <<>>

\* croInsights that reports promotions as soon as one result has a discount
croInsights_anyDiscount(results) ==
  LET withPricing == SelectSeq(results, LAMBDA r : r.analysis.hasPricing)
      withoutPricing == SelectSeq(results, LAMBDA r : ~r.analysis.hasPricing)
      withDiscount == SelectSeq(results, LAMBDA r : r.analysis.hasDiscount)
      withoutDiscount == SelectSeq(results, LAMBDA r : ~r.analysis.hasDiscount)
      withFreeTrial == SelectSeq(results, LAMBDA r : r.analysis.hasFreeTrial)
      withoutFreeTrial == SelectSeq(results, LAMBDA r : ~r.analysis.hasFreeTrial)
  IN  (IF withoutPricing # <<>> /\ withPricing # <<>>
       THEN <<Insight(IF withPricing[1].url = results[1].url
                      THEN "advantage" ELSE "recommendation",
                      "pricing", domainsOf(withoutPricing), domainsOf(withPricing),
                      <<>>, <<>>, <<>>, <<>>)>>
       ELSE <<>>) \o
      priceInsight(results, withPricing) \o
      (IF withDiscount # <<>>
       THEN <<Insight(IF someUrl(withDiscount, results[1].url)
                      THEN "advantage" ELSE "disadvantage",
                      "discount", domainsOf(withDiscount), domainsOf(withoutDiscount),
                      <<>>, <<>>, <<>>, <<>>)>>
       ELSE <<>>) \o
      (IF withFreeTrial # <<>> /\ withoutFreeTrial # <<>>
       THEN <<Insight(IF someUrl(withFreeTrial, results[1].url)
                      THEN "advantage" ELSE "recommendation",
                      "trial", domainsOf(withFreeTrial), domainsOf(withoutFreeTrial),
                      <<>>, <<>>, <<>>, <<>>)>>
       ELSE <<>>) \o
      positioningInsight(results)

\* generateInsights(results) of the analyzer page, for results.length >= 2
croInsights(results) ==
  LET withPricing == SelectSeq(results, LAMBDA r : r.analysis.hasPricing)
      withoutPricing == SelectSeq(results, LAMBDA r : ~r.analysis.hasPricing)
      withDiscount == SelectSeq(results, LAMBDA r : r.analysis.hasDiscount)
      withoutDiscount == SelectSeq(results, LAMBDA r : ~r.analysis.hasDiscount)
      withFreeTrial == SelectSeq(results, LAMBDA r : r.analysis.hasFreeTrial)
      withoutFreeTrial == SelectSeq(results, LAMBDA r : ~r.analysis.hasFreeTrial)
  IN  (IF withoutPricing # <<>> /\ withPricing # <<>>
       THEN <<Insight(IF withPricing[1].url = results[1].url
                      THEN "advantage" ELSE "recommendation",
                      "pricing", domainsOf(withoutPricing), domainsOf(withPricing),
                      <<>>, <<>>, <<>>, <<>>)>>
       ELSE <<>>) \o
      priceInsight(results, withPricing) \o
      (IF withDiscount # <<>> /\ withoutDiscount # <<>>
       THEN <<Insight(IF someUrl(withDiscount, results[1].url)
                      THEN "advantage" ELSE "disadvantage",
                      "discount", domainsOf(withDiscount), domainsOf(withoutDiscount),
                      <<>>, <<>>, <<>>, <<>>)>>
       ELSE <<>>) \o
      (IF withFreeTrial # <<>> /\ withoutFreeTrial # <<>>
       THEN <<Insight(IF someUrl(withFreeTrial, results[1].url)
                      THEN "advantage" ELSE "recommendation",
                      "trial", domainsOf(withFreeTrial), domainsOf(withoutFreeTrial),
                      <<>>, <<>>, <<>>, <<>>)>>
       ELSE <<>>) \o
      positioningInsight(results)

\* what generateInsights returns: null for fewer than two results
InsightsOut(isNull, insights) == [null |-> isNull, insights |-> insights]

generateInsightsCRO(results) ==
  IF Len(results) < 2 THEN InsightsOut(TRUE, <<>>)
  ELSE InsightsOut(FALSE, croInsights(results))

U_oxylabs == S_https \o D_oxylabs
U_wwwBrightdata == S_https \o S_www \o D_brightdata \o S_pricing
CroUrls == {U_oxylabs, U_wwwBrightdata, D_brightdata}

P_10mo == <<"$","1","0","/","m","o">>
P_15mo == <<"$","1","5","/","m","o">>
P_contact == <<"C","o","n","t","a","c","t"," ","u","s">>
P_zero == <<"$","0">>
P_dots9 == <<".",".","$","9">>
P_2_50 == <<"$","2",".","5","0","/","G","B">>
Prices == {P_10mo, P_15mo, P_contact, P_zero, P_dots9, P_2_50}

H_plans == <<"P","l","a","n","s">>

\* the results the engine is run on: every list of up to two results, and
\* the lists of three over a smaller set
CroResultSet ==
  {AnalysisResult(u, Analysis(H_plans, hp, pr, hd, ft)) :
     u \in CroUrls, hp \in BOOLEAN, pr \in Prices, hd \in BOOLEAN, ft \in BOOLEAN}

CroSmallResultSet ==
  {AnalysisResult(u, Analysis(H_plans, TRUE, pr, f[1], f[2])) :
     u \in {U_oxylabs, U_wwwBrightdata},
     pr \in {P_10mo, P_15mo, P_dots9},
     f \in {<<TRUE, FALSE>>, <<FALSE, TRUE>>, <<FALSE, FALSE>>}}

CroInputs ==
  {<<>>} \cup {<<a>> : a \in CroResultSet}
  \cup {<<a, b>> : a \in CroResultSet, b \in CroResultSet}
  \cup {<<a, b, c>> : a \in CroSmallResultSet, b \in CroSmallResultSet,
                      c \in CroSmallResultSet}

Pending == [null |-> TRUE, insights |-> <<"pending">>]

InitCro ==
  /\ MockIdle /\ PerfIdle /\ LandIdle /\ ExtIdle /\ UiIdle
  /\ croResults \in CroInputs
  /\ croOut = Pending

\* generateInsights(results) is called
CallGenerateInsights ==
  /\ croOut = Pending
  /\ croOut' = generateInsightsCRO(croResults)
  /\ UNCHANGED <<mockVars, perfVars, landVars, extVars, uiVars, croResults>>

NextCro == CallGenerateInsights

SpecCro == InitCro /\ [][NextCro]_vars

Computed == croOut # Pending /\ ~croOut.null

PriceInsights == {i \in DOMAIN croOut.insights : croOut.insights[i].kind = "price"}

\* C9: for A = {pricing, '$10/mo', no discount, free trial} first and
\* B = {pricing, '$15/mo', discount, no free trial} second, exactly four
\* insights come out, in this order: price (advantage, A lowest, B 50% higher),
\* discount (disadvantage, B), free trial (advantage, A), positioning
\* (recommendation, A: free trial, B: active promotions).
C9_Scenario ==
  /\ Len(croResults) = 2
  /\ croResults[1].analysis = Analysis(H_plans, TRUE, P_10mo, FALSE, TRUE)
  /\ croResults[2].analysis = Analysis(H_plans, TRUE, P_15mo, TRUE, FALSE)

C9_EndToEnd ==
  (Computed /\ C9_Scenario) =>
    LET A == getDomain(croResults[1].url)
        B == getDomain(croResults[2].url)
    IN  croOut.insights =
          << Insight("advantage", "price", <<A>>, <<B>>, <<P_10mo, P_15mo>>,
                     <<>>, <<>>, <<50>>),
             Insight("disadvantage", "discount", <<B>>, <<A>>, <<>>, <<>>, <<>>, <<>>),
             Insight("advantage", "trial", <<A>>, <<B>>, <<>>, <<>>, <<>>, <<>>),
             Insight("recommendation", "positioning", <<A>>, <<B>>, <<>>,
                     <<"free trial">>, <<"active promotions">>, <<>>) >>

\* the results whose price string holds a number parsePrice can read
Parseable == {i \in DOMAIN croResults :
                parsePrice(croResults[i].analysis.pricingStartsFrom).kind = "num"}

\* C10: no price-comparison insight when fewer than two results have a
\* parseable numeric price.
C10_NoPriceInsightWithoutTwoPrices ==
  (Computed /\ Cardinality(Parseable) < 2) => PriceInsights = {}

\* two sites show pricing, one price is '$10/mo', the other has no number
C10_Witness ==
  /\ Computed
  /\ Len(croResults) = 2
  /\ croResults[1].analysis.hasPricing /\ croResults[2].analysis.hasPricing
  /\ croResults[1].analysis.pricingStartsFrom = P_10mo
  /\ croResults[2].analysis.pricingStartsFrom = P_dots9
  /\ Cardinality(Parseable) = 1
  /\ PriceInsights = {}

\* the insights of the call, and the site names an insight mentions
Insights == croOut.insights
InputDomains == {getDomain(croResults[i].url) : i \in DOMAIN croResults}
NamesOf(ins) == {ins.first[i] : i \in DOMAIN ins.first}
                \cup {ins.second[i] : i \in DOMAIN ins.second}
Occurrences(names, d) == Cardinality({i \in DOMAIN names : names[i] = d})

\* the three boolean dimensions, the flag of each, and the two groups of
\* an insight about one of them
Dimensions == {"pricing", "discount", "trial"}
FlagOf(dim, r) ==
  CASE dim = "pricing" -> r.analysis.hasPricing
    [] dim = "discount" -> r.analysis.hasDiscount
    [] dim = "trial" -> r.analysis.hasFreeTrial
HasGroup(ins) == IF ins.kind = "pricing" THEN ins.second ELSE ins.first
LacksGroup(ins) == IF ins.kind = "pricing" THEN ins.first ELSE ins.second
ResultsOf(d, dim, flag) ==
  {i \in DOMAIN croResults :
     getDomain(croResults[i].url) = d /\ FlagOf(dim, croResults[i]) = flag}

\* C11: every site name in an insight is the domain of an input result, and
\* in a pricing, discount or free-trial insight each input result is listed,
\* by its domain, once in the group that matches its flag and not in the other.
C11_NamesComeFromInput ==
  Computed =>
    \A k \in DOMAIN Insights :
      LET ins == Insights[k] IN
      /\ NamesOf(ins) \subseteq InputDomains
      /\ ins.kind \in Dimensions =>
           \A d \in InputDomains :
             /\ Occurrences(HasGroup(ins), d) = Cardinality(ResultsOf(d, ins.kind, TRUE))
             /\ Occurrences(LacksGroup(ins), d) = Cardinality(ResultsOf(d, ins.kind, FALSE))

\* three results, two sites with a discount and one without
C11_Witness ==
  /\ Computed /\ Len(croResults) = 3
  /\ \E k \in DOMAIN Insights :
       /\ Insights[k].kind = "discount"
       /\ Len(Insights[k].first) = 2
       /\ Insights[k].first[1] # Insights[k].first[2]
       /\ Len(Insights[k].second) = 1

InsightsAbout(dim) == {k \in DOMAIN Insights : Insights[k].kind = dim}
Partitioned(dim) ==
  /\ \E i \in DOMAIN croResults : FlagOf(dim, croResults[i])
  /\ \E i \in DOMAIN croResults : ~FlagOf(dim, croResults[i])

\* C12: for pricing shown, discount and free trial alike, the insight of the
\* dimension is emitted once when some result has the flag and some result
\* lacks it, and not at all otherwise.
C12_InsightIffPartitioned ==
  Computed =>
    \A dim \in Dimensions :
      Cardinality(InsightsAbout(dim)) = IF Partitioned(dim) THEN 1 ELSE 0

\* every result has a discount and no insight about discounts comes out,
\* while the results differ on pricing and that insight does
C12_Witness ==
  /\ Computed
  /\ \A i \in DOMAIN croResults : croResults[i].analysis.hasDiscount
  /\ InsightsAbout("discount") = {}
  /\ Partitioned("pricing")
  /\ Cardinality(InsightsAbout("pricing")) = 1

\* the results that show pricing and whose price string parses to a number
Priced == {i \in DOMAIN croResults :
             /\ croResults[i].analysis.hasPricing
             /\ parsePrice(croResults[i].analysis.pricingStartsFrom).kind = "num"}
PriceOf(i) == parsePrice(croResults[i].analysis.pricingStartsFrom).milli

\* is the first result itself in the favourable group of the dimension
SubjectFavoured(kind) ==
  IF kind = "price"
  THEN 1 \in Priced /\ \A j \in Priced : PriceOf(1) <= PriceOf(j)
  ELSE FlagOf(kind, croResults[1])

OtherType(kind) ==
  IF kind \in {"pricing", "trial"} THEN "recommendation" ELSE "disadvantage"

\* C13: an insight about pricing shown, price, discount or free trial has type
\* 'advantage' exactly when the first result itself is in the favourable group
\* of that dimension, and otherwise 'recommendation' (pricing shown, free trial)
\* or 'disadvantage' (price, discount).
C13_AdvantageIffSubjectFavoured ==
  Computed =>
    \A k \in DOMAIN Insights :
      Insights[k].kind \in Dimensions \cup {"price"} =>
        Insights[k].type = IF SubjectFavoured(Insights[k].kind)
                           THEN "advantage" ELSE OtherType(Insights[k].kind)

LabelOf(dim) ==
  CASE dim = "pricing" -> "transparent pricing"
    [] dim = "discount" -> "active promotions"
    [] dim = "trial" -> "free trial"

\* the labels of the dimensions in which result i has the flag and j has not
Exclusive(i, j) ==
  {LabelOf(dim) : dim \in {d \in Dimensions :
                             FlagOf(d, croResults[i]) /\ ~FlagOf(d, croResults[j])}}

Listed(labels) == {labels[i] : i \in DOMAIN labels}

\* C14: the competitive-positioning insight comes out only for exactly two
\* results that differ in some flag; it is then the last insight, of type
\* 'recommendation', and lists for each site exactly the dimensions in which
\* that site has the flag and the other has not.
C14_PositioningOnlyForTwo ==
  Computed =>
    \A k \in InsightsAbout("positioning") :
      LET ins == Insights[k] IN
      /\ Len(croResults) = 2
      /\ Exclusive(1, 2) \cup Exclusive(2, 1) # {}
      /\ k = Len(Insights)
      /\ ins.type = "recommendation"
      /\ Listed(ins.firstAdvantages) = Exclusive(1, 2)
      /\ Len(ins.firstAdvantages) = Cardinality(Exclusive(1, 2))
      /\ Listed(ins.secondAdvantages) = Exclusive(2, 1)
      /\ Len(ins.secondAdvantages) = Cardinality(Exclusive(2, 1))
      /\ ins.first = IF Exclusive(1, 2) = {} THEN <<>> ELSE <<getDomain(croResults[1].url)>>
      /\ ins.second = IF Exclusive(2, 1) = {} THEN <<>> ELSE <<getDomain(croResults[2].url)>>

\* two results, the first alone shows pricing and offers a trial, the second
\* alone has a discount: the summary closes a list of four insights
C14_Witness ==
  /\ Computed /\ Len(croResults) = 2
  /\ Len(Insights) = 4
  /\ Insights[4].kind = "positioning"
  /\ Insights[4].firstAdvantages = <<"transparent pricing", "free trial">>
  /\ Insights[4].secondAdvantages = <<"active promotions">>

(***************************************************************************)
(* Landing-page analysis endpoint: text extraction and screenshot URL      *)
(***************************************************************************)
\* a lone high surrogate code unit, as JSON "\ud800" decodes to
HighSurrogate == "\\uD800"

Unreserved ==
  {"a","b","c","d","e","f","g","h","i","j","k","l","m","n","o","p","q","r",
   "s","t","u","v","w","x","y","z","0","1","2","3","4","5","6","7","8","9",
   "-","_",".","!","~","*","'","(",")"}

HexDigits == <<"0","1","2","3","4","5","6","7","8","9","A","B","C","D","E","F">>

\* encodeURIComponent, one ASCII character
encodeChar(ch) ==
  IF ch \in Unreserved THEN <<ch>>
  ELSE <<"%", HexDigits[(charCodeAt(ch) \div 16) + 1], HexDigits[(charCodeAt(ch) % 16) + 1]>>

RECURSIVE encodeChars(_)
encodeChars(s) ==
  IF s = <<>> THEN <<>> ELSE encodeChar(s[1]) \o encodeChars(SubSeq(s, 2, Len(s)))

\* encodeURIComponent(url): throws URIError on a lone surrogate
encodeURIComponent(url) ==
  IF \E i \in 1..Len(url) : url[i] = HighSurrogate
  THEN [threw |-> TRUE, value |-> <<>>]
  ELSE [threw |-> FALSE, value |-> encodeChars(url)]

S_microlink ==
  <<"h","t","t","p","s",":","/","/","a","p","i",".","m","i","c","r","o","l",
    "i","n","k",".","i","o","/","?","u","r","l","=">>

S_microlinkTail ==
  <<"&","s","c","r","e","e","n","s","h","o","t","=","t","r","u","e","&","m",
    "e","t","a","=","f","a","l","s","e","&","e","m","b","e","d","=","s","c",
    "r","e","e","n","s","h","o","t",".","u","r","l">>

getScreenshotUrl(url) ==
  LET encodedUrl == encodeURIComponent(url)
  IN  IF encodedUrl.threw THEN encodedUrl
      ELSE [threw |-> FALSE, value |-> S_microlink \o encodedUrl.value \o S_microlinkTail]

\* \s of the regular expressions
isSpace(ch) == ch \in {" ", "\n", "\t"}

\* first index >= from where p occurs in s; 0 when there is none
indexOfFrom(s, p, from) ==
  LET at == {i \in from..(Len(s) - Len(p) + 1) : SubSeq(s, i, i + Len(p) - 1) = p}
  IN  IF at = {} THEN 0 ELSE CHOOSE i \in at : \A j \in at : i <= j

\* s.replace(/<tag[^>]*>[\s\S]*?<\/tag>/gi, "")
RECURSIVE removeRegions(_, _)
removeRegions(s, tag) ==
  LET low == toLowerCase(s)
      open == <<"<">> \o tag
      close == <<"<", "/">> \o tag \o <<">">>
      gtAfter(i) == indexOfFrom(low, <<">">>, i + Len(open))
      closeAfter(i) == IF gtAfter(i) = 0 THEN 0 ELSE indexOfFrom(low, close, gtAfter(i) + 1)
      starts == {i \in 1..Len(s) :
                   /\ i + Len(open) - 1 <= Len(s)
                   /\ SubSeq(low, i, i + Len(open) - 1) = open
                   /\ closeAfter(i) # 0}
  IN  IF starts = {} THEN s
      ELSE LET i == CHOOSE k \in starts : \A j \in starts : k <= j
               last == closeAfter(i) + Len(close) - 1
           IN  SubSeq(s, 1, i - 1) \o removeRegions(SubSeq(s, last + 1, Len(s)), tag)

\* s.replace(/<[^>]+>/g, " ")
RECURSIVE replaceTags(_)
replaceTags(s) ==
  LET gtAfter(i) == indexOfFrom(s, <<">">>, i + 1)
      starts == {i \in 1..Len(s) : s[i] = "<" /\ gtAfter(i) > i + 1}
  IN  IF starts = {} THEN s
      ELSE LET i == CHOOSE k \in starts : \A j \in starts : k <= j
           IN  SubSeq(s, 1, i - 1) \o <<" ">>
               \o replaceTags(SubSeq(s, gtAfter(i) + 1, Len(s)))

\* s.replace(/\s+/g, " "): a whitespace character that follows another one
\* goes, every other whitespace character becomes one space
collapseSpaces(s) ==
  LET marked == [i \in 1..Len(s) |->
                   IF ~isSpace(s[i]) THEN <<s[i]>>
                   ELSE IF i > 1 /\ isSpace(s[i - 1]) THEN <<>>
                   ELSE <<" ">>]
      kept == SelectSeq(marked, LAMBDA m : m # <<>>)
  IN  [i \in 1..Len(kept) |-> kept[i][1]]

\* String.prototype.trim
trim(s) ==
  LET kept == {i \in 1..Len(s) : ~isSpace(s[i])}
  IN  IF kept = {} THEN <<>>
      ELSE SubSeq(s, CHOOSE i \in kept : \A j \in 1..(i - 1) : isSpace(s[j]),
                     CHOOSE i \in kept : \A j \in (i + 1)..Len(s) : isSpace(s[j]))

MaxContentLength == 12000

\* s.substring(0, n)
substring0(s, n) == SubSeq(s, 1, Min(n, Len(s)))

S_script == <<"s","c","r","i","p","t">>
S_style == <<"s","t","y","l","e">>

\* the extraction without its final substring(0, 12000)
textContent_unbounded(page) ==
  trim(collapseSpaces(replaceTags(
    removeRegions(removeRegions(page, S_script), S_style))))

\* the text the fetch phase keeps of a page
textContent(page) ==
  substring0(trim(collapseSpaces(replaceTags(
    removeRegions(removeRegions(page, S_script), S_style)))), MaxContentLength)

Html_plans ==
  <<"<","h","1",">","P","l","a","n","s","<","/","h","1",">","\n","<","p",
    ">","f","r","o","m"," "," ","$","9","<","/","p",">">>

Html_scriptOnly ==
  <<"<","S","C","R","I","P","T"," ","s","r","c","=","a",">","v","a","r"," ",
    "a","<","/","S","C","R","I","P","T",">","<","s","t","y","l","e",">","p",
    "{","}","<","/","s","t","y","l","e",">">>

Html_unclosed ==
  <<"<","p",">","H","i","<","s","c","r","i","p","t",">","x">>

\* a page of words longer than the limit: "aaaa aaaa aaaa ..."
Html_long == [i \in 1..12010 |-> IF i % 5 = 0 THEN " " ELSE "a"]

\* a longer page that opens with a tag and separates its words by blank lines
Html_longSpaced ==
  <<"\n", "<", "p", ">">>
  \o [i \in 1..15010 |-> IF i % 5 \in {0, 1} THEN "\n" ELSE "a"]

\* text around a closed script and a closed style region
Html_mixed ==
  <<"a","<","s","c","r","i","p","t",">","x","<","/","s","c","r","i","p","t",
    ">","b","<","s","t","y","l","e",">","y","<","/","s","t","y","l","e",">">>

HtmlAlphabet == {"a", " ", "\n", "<", ">"}

\* every page of at most three characters, and the pages above
HtmlInputs ==
  UNION {[1..n -> HtmlAlphabet] : n \in 0..3}
  \cup {Html_plans, Html_scriptOnly, Html_unclosed, Html_mixed, Html_long,
        Html_longSpaced}

(***************************************************************************)
(* The text extraction alone, over arbitrary page bodies                   *)
(***************************************************************************)
\* response.text() resolved with html
InitExtract ==
  /\ MockIdle /\ PerfIdle /\ CroIdle /\ LandIdle /\ UiIdle
  /\ html \in HtmlInputs
  /\ extracted = <<>>

\* const textContent = html.replace(...)...trim().substring(0, 12000)
ExtractText ==
  /\ extracted = <<>>
  /\ extracted' = <<textContent(html)>>
  /\ UNCHANGED <<mockVars, perfVars, croVars, landVars, uiVars, html>>

NextExtract == ExtractText

SpecExtract == InitExtract /\ [][NextExtract]_vars

(***************************************************************************)
(* Landing-page analysis endpoint: POST                                    *)
(***************************************************************************)
S_unableToFetch ==
  <<"U","n","a","b","l","e"," ","t","o"," ","f","e","t","c","h"," ","p","a",
    "g","e">>

S_analysisFailed ==
  <<"A","n","a","l","y","s","i","s"," ","f","a","i","l","e","d">>

S_NA ==
  <<"N","/","A">>

P_9 ==
  <<"$","9">>

T_sorry ==
  <<"S","o","r","r","y">>

T_full ==
  <<"{","\"","m","a","i","n","H","e","a","d","l","i","n","e","\"",":","\"",
    "P","l","a","n","s","\"",",","\"","h","a","s","P","r","i","c","i","n",
    "g","\"",":","t","r","u","e",",","\"","p","r","i","c","i","n","g","S",
    "t","a","r","t","s","F","r","o","m","\"",":","\"","$","9","\"",",","\"",
    "h","a","s","D","i","s","c","o","u","n","t","\"",":","f","a","l","s",
    "e",",","\"","h","a","s","F","r","e","e","T","r","i","a","l","\"",":",
    "t","r","u","e","}">>

T_fenced ==
  <<"R","e","s","u","l","t",":"," ","{","\"","m","a","i","n","H","e","a",
    "d","l","i","n","e","\"",":","\"","P","l","a","n","s","\"",",","\"","h",
    "a","s","P","r","i","c","i","n","g","\"",":","t","r","u","e",",","\"",
    "p","r","i","c","i","n","g","S","t","a","r","t","s","F","r","o","m",
    "\"",":","\"","$","9","\"",",","\"","h","a","s","D","i","s","c","o","u",
    "n","t","\"",":","f","a","l","s","e",",","\"","h","a","s","F","r","e",
    "e","T","r","i","a","l","\"",":","t","r","u","e","}",".">>

T_partial ==
  <<"{","\"","h","a","s","P","r","i","c","i","n","g","\"",":","t","r","u",
    "e","}">>

T_broken ==
  <<"{","o","o","p","s","}">>

M_gpt4o ==
  <<"g","p","t","-","4","o">>

M_gpt35 ==
  <<"g","p","t","-","3",".","5">>

M_claude ==
  <<"c","l","a","u","d","e">>

S_gpt4 == <<"g","p","t","-","4">>
S_gpt == <<"g","p","t">>

\* an analysis object as it travels in JSON: a key that is absent is <<>>
JsonAnalysis(mainHeadline, hasPricing, pricingStartsFrom, hasDiscount, hasFreeTrial) ==
  [mainHeadline |-> mainHeadline, hasPricing |-> hasPricing,
   pricingStartsFrom |-> pricingStartsFrom, hasDiscount |-> hasDiscount,
   hasFreeTrial |-> hasFreeTrial]

\* sentinel that reports pricing
sentinel_hasPricing(mainHeadline) ==
  JsonAnalysis(<<mainHeadline>>, <<TRUE>>, <<S_NA>>, <<FALSE>>, <<FALSE>>)

\* the record returned for a page that could not be fetched or analysed
sentinel(mainHeadline) ==
  JsonAnalysis(<<mainHeadline>>, <<FALSE>>, <<S_NA>>, <<FALSE>>, <<FALSE>>)

\* analysisText.match(/\{[\s\S]*\}/): from the first "{" to the last "}"
jsonMatch(analysisText) ==
  LET opens == {i \in 1..Len(analysisText) : analysisText[i] = "{"}
      first == CHOOSE i \in opens : \A j \in opens : i <= j
      closes == {i \in 1..Len(analysisText) : analysisText[i] = "}" /\ i > first}
  IN  IF opens = {} \/ closes = {} THEN <<>>
      ELSE <<SubSeq(analysisText, first, CHOOSE i \in closes : \A j \in closes : i >= j)>>

\* JSON.parse of the texts the model's replies are made of
JSONparse(text) ==
  CASE text = T_full ->
         [threw |-> FALSE,
          value |-> JsonAnalysis(<<H_plans>>, <<TRUE>>, <<P_9>>, <<FALSE>>, <<TRUE>>)]
    [] text = T_partial ->
         [threw |-> FALSE, value |-> JsonAnalysis(<<>>, <<TRUE>>, <<>>, <<>>, <<>>)]
    [] OTHER -> [threw |-> TRUE, value |-> sentinel(<<>>)]

\* what the chat-completion call can do
LlmOutcome(kind, text) == [kind |-> kind, text |-> text]
LlmOutcomes ==
  {LlmOutcome(k, <<>>) : k \in {"reject", "notOk", "badShape"}}
  \cup {LlmOutcome("ok", t) : t \in {T_sorry, T_full, T_fenced, T_partial, T_broken}}

\* the body of the try block after the chat-completion call settled:
\* the analysis, or <<>> when the block threw
analysisOf(o) ==
  IF o.kind # "ok" THEN <<>>
  ELSE LET m == jsonMatch(o.text)
       IN  IF m = <<>> THEN <<>>
           ELSE IF JSONparse(m[1]).threw THEN <<>>
           ELSE <<JSONparse(m[1]).value>>

\* one element of analyses
LandResult(url, analysis, screenshot) ==
  [url |-> url, analysis |-> analysis, screenshot |-> screenshot]

\* what GET /v1/models can do: the call rejects, answers a non-success
\* status, or answers a body whose data is absent (<<>>) or a list of models
ModelsOutcome(kind, data) == [kind |-> kind, data |-> data]
ModelEntry(id) == [id |-> id]
ModelsOutcomes ==
  {ModelsOutcome("reject", <<>>), ModelsOutcome("notOk", <<>>),
   ModelsOutcome("ok", <<>>), ModelsOutcome("ok", << <<>> >>),
   ModelsOutcome("ok", << <<ModelEntry(<<M_gpt35>>), ModelEntry(<<M_gpt4o>>)>> >>),
   ModelsOutcome("ok", << <<ModelEntry(<<M_claude>>), ModelEntry(<<M_gpt35>>)>> >>),
   ModelsOutcome("ok", << <<ModelEntry(<<M_claude>>)>> >>),
   ModelsOutcome("ok", << <<ModelEntry(<<>>)>> >>)}

\* data.find(m => m.id?.includes(part)): the entry, or <<>> for undefined
findModel(data, part) ==
  LET hits == {i \in 1..Len(data) : data[i].id # <<>> /\ includes(data[i].id[1], part)}
  IN  IF hits = {} THEN <<>>
      ELSE <<data[CHOOSE i \in hits : \A j \in hits : i <= j]>>

\* the model id the POST handler ends up with; <<>> is "" or undefined
pickModel(o) ==
  IF o.kind # "ok" \/ o.data = <<>> THEN <<>>
  ELSE LET data == o.data[1]
           preferredModel ==
             IF findModel(data, S_gpt4) # <<>> THEN findModel(data, S_gpt4)
             ELSE IF findModel(data, S_gpt) # <<>> THEN findModel(data, S_gpt)
             ELSE IF data # <<>> THEN <<data[1]>> ELSE <<>>
       IN  IF preferredModel = <<>> THEN <<>>
           ELSE IF preferredModel[1].id = <<>> \/ preferredModel[1].id = << <<>> >>
           THEN <<>>
           ELSE preferredModel[1].id

U_surrogate == S_https \o D_oxylabs \o <<"/", HighSurrogate>>
LandUrls == {U_oxylabs, D_brightdata, U_surrogate}

\* request bodies: not JSON, no urls key, urls that is not a list, a list
LandRequest(kind, list) == [kind |-> kind, urls |-> list]
LandRequests ==
  {LandRequest(k, <<>>) : k \in {"malformed", "noUrls", "notArray"}}
  \cup {LandRequest("list", <<>>)}
  \cup {LandRequest("list", <<a>>) : a \in LandUrls}
  \cup {LandRequest("list", <<a, b>>) : a \in LandUrls, b \in LandUrls}

\* fetch(url) needs an absolute URL
fetchable(url) == startsWith(url, S_https) \/ startsWith(url, S_http)

\* what fetching a page can do: reject, or answer with a body
PageOutcome(kind, body) == [kind |-> kind, html |-> body]
PageOutcomes(url) ==
  {PageOutcome("reject", <<>>)}
  \cup (IF fetchable(url)
        THEN {PageOutcome("ok", h) : h \in {Html_plans, Html_scriptOnly, Html_unclosed}}
        ELSE {})

LandResponse(status, analyses, message) ==
  [status |-> status, analyses |-> analyses, error |-> message]

Urls == landReq.urls
Index == 1..Len(Urls)

InitLanding ==
  /\ MockIdle /\ PerfIdle /\ CroIdle /\ ExtIdle /\ UiIdle
  /\ landReq \in LandRequests
  /\ landPc = "start"
  /\ modelId = <<>>
  /\ pagePc = [i \in 1..Len(landReq.urls) |-> "idle"]
  /\ pageContent = [i \in 1..Len(landReq.urls) |-> <<>>]
  /\ pageResult = [i \in 1..Len(landReq.urls) |-> <<>>]
  /\ pageFetches = [i \in 1..Len(landReq.urls) |-> 0]
  /\ llmCalls = [i \in 1..Len(landReq.urls) |-> 0]
  /\ landDone = <<>>
  /\ pageLog = [i \in 1..Len(landReq.urls) |-> [fetch |-> <<>>, llm |-> <<>>]]
  /\ landResp = <<>>

\* request.json() throws: the outer catch answers 500
LandPostMalformedBody ==
  /\ landPc = "start" /\ landReq.kind = "malformed"
  /\ landPc' = "done"
  /\ landResp' = <<LandResponse(500, <<>>, <<"Unexpected end of JSON input">>)>>
  /\ UNCHANGED <<mockVars, perfVars, croVars, extVars, uiVars, landReq, modelId, pagePc, pageContent,
                 pageResult, pageFetches, llmCalls, landDone, pageLog>>

\* !urls || !Array.isArray(urls)
LandPostNoUrls ==
  /\ landPc = "start" /\ landReq.kind \in {"noUrls", "notArray"}
  /\ landPc' = "done"
  /\ landResp' = <<LandResponse(400, <<>>, <<"URLs array is required">>)>>
  /\ UNCHANGED <<mockVars, perfVars, croVars, extVars, uiVars, landReq, modelId, pagePc, pageContent,
                 pageResult, pageFetches, llmCalls, landDone, pageLog>>

\* a list of urls: the model list is requested
LandPost ==
  /\ landPc = "start" /\ landReq.kind = "list"
  /\ landPc' = "models"
  /\ UNCHANGED <<mockVars, perfVars, croVars, extVars, uiVars, landReq, modelId, pagePc, pageContent,
                 pageResult, pageFetches, llmCalls, landDone, landResp, pageLog>>

\* the model list call settles; without a model id the handler answers 500,
\* with one it starts the fetch of every url
ModelsSettle ==
  /\ landPc = "models"
  /\ \E o \in ModelsOutcomes :
       /\ modelId' = pickModel(o)
       /\ IF pickModel(o) = <<>>
          THEN /\ landPc' = "done"
               /\ landResp' = <<LandResponse(500, <<>>,
                     <<"No valid model found. Please check your Nexos AI API key and model access.">>)>>
               /\ UNCHANGED <<pagePc, pageFetches>>
          ELSE /\ landPc' = "fetching"
               /\ pagePc' = [i \in Index |-> "fetching"]
               /\ pageFetches' = [i \in Index |-> pageFetches[i] + 1]
               /\ UNCHANGED landResp
  /\ UNCHANGED <<mockVars, perfVars, croVars, extVars, uiVars, landReq, pageContent, pageResult,
                 llmCalls, landDone, pageLog>>

\* the fetch of url i settles: the page text, or "" when anything threw
PageFetchSettles(i) ==
  /\ landPc = "fetching" /\ pagePc[i] = "fetching"
  /\ \E o \in PageOutcomes(Urls[i]) :
       /\ pageContent' = [pageContent EXCEPT ![i] =
                            IF o.kind = "ok" THEN textContent(o.html) ELSE <<>>]
       /\ pageLog' = [pageLog EXCEPT ![i].fetch = <<o>>]
  /\ pagePc' = [pagePc EXCEPT ![i] = "fetched"]
  /\ UNCHANGED <<mockVars, perfVars, croVars, extVars, uiVars, landReq, landPc, modelId, pageResult,
                 pageFetches, llmCalls, landDone, landResp>>

\* the value one analysis callback settles with: the result, or <<>> when
\* getScreenshotUrl threw outside every try block
settled(url, analysis) ==
  IF getScreenshotUrl(url).threw THEN <<>>
  ELSE <<LandResult(url, analysis, getScreenshotUrl(url).value)>>

\* the urls whose callback is over at once: no content to send
Unfetched == {i \in Index : pageContent[i] = <<>>}

RECURSIVE indexesInOrder(_, _)
indexesInOrder(n, S) ==
  IF n = 0 THEN <<>>
  ELSE indexesInOrder(n - 1, S) \o (IF n \in S THEN <<n>> ELSE <<>>)

\* BeginAnalysis that does not wait for the last fetch
BeginAnalysis_early ==
  /\ landPc = "fetching"
  /\ \E i \in Index : pagePc[i] = "fetched"
  /\ landPc' = "analyzing"
  /\ pageResult' = [i \in Index |->
                      IF i \in Unfetched THEN settled(Urls[i], sentinel(S_unableToFetch))
                      ELSE <<>>]
  /\ pagePc' = [i \in Index |->
                  IF i \notin Unfetched THEN "llm"
                  ELSE IF settled(Urls[i], sentinel(S_unableToFetch)) = <<>>
                  THEN "rejected" ELSE "done"]
  /\ llmCalls' = [i \in Index |-> IF i \in Unfetched THEN llmCalls[i] ELSE llmCalls[i] + 1]
  /\ landDone' = indexesInOrder(Len(Urls), Unfetched)
  /\ UNCHANGED <<mockVars, perfVars, croVars, extVars, uiVars, landReq, modelId, pageContent,
                 pageFetches, landResp, pageLog>>

\* every fetch has settled: pageContents.map starts one analysis per url
BeginAnalysis ==
  /\ landPc = "fetching"
  /\ \A i \in Index : pagePc[i] = "fetched"
  /\ landPc' = "analyzing"
  /\ pageResult' = [i \in Index |->
                      IF i \in Unfetched THEN settled(Urls[i], sentinel(S_unableToFetch))
                      ELSE <<>>]
  /\ pagePc' = [i \in Index |->
                  IF i \notin Unfetched THEN "llm"
                  ELSE IF settled(Urls[i], sentinel(S_unableToFetch)) = <<>>
                  THEN "rejected" ELSE "done"]
  /\ llmCalls' = [i \in Index |-> IF i \in Unfetched THEN llmCalls[i] ELSE llmCalls[i] + 1]
  /\ landDone' = indexesInOrder(Len(Urls), Unfetched)
  /\ UNCHANGED <<mockVars, perfVars, croVars, extVars, uiVars, landReq, modelId, pageContent,
                 pageFetches, landResp, pageLog>>

\* LlmSettles that sends the chat-completion call again when it failed
LlmSettles_retry(i) ==
  /\ landPc \in {"analyzing", "done"} /\ pagePc[i] = "llm"
  /\ \E o \in LlmOutcomes :
       /\ pageLog' = [pageLog EXCEPT ![i].llm = <<o>>]
       /\ IF analysisOf(o) = <<>>
          THEN /\ llmCalls' = [llmCalls EXCEPT ![i] = llmCalls[i] + 1]
               /\ UNCHANGED <<pageResult, pagePc, landDone>>
          ELSE LET result == settled(Urls[i], analysisOf(o)[1])
               IN  /\ pageResult' = [pageResult EXCEPT ![i] = result]
                   /\ pagePc' = [pagePc EXCEPT ![i] =
                                   IF result = <<>> THEN "rejected" ELSE "done"]
                   /\ landDone' = Append(landDone, i)
                   /\ UNCHANGED llmCalls
  /\ UNCHANGED <<mockVars, perfVars, croVars, extVars, uiVars, landReq, landPc, modelId,
                 pageContent, pageFetches, landResp>>

\* the chat-completion call of url i settles
LlmSettles(i) ==
  /\ landPc \in {"analyzing", "done"} /\ pagePc[i] = "llm"
  /\ \E o \in LlmOutcomes :
       LET analysis == IF analysisOf(o) = <<>> THEN sentinel(S_analysisFailed)
                       ELSE analysisOf(o)[1]
           result == settled(Urls[i], analysis)
       IN  /\ pageResult' = [pageResult EXCEPT ![i] = result]
           /\ pagePc' = [pagePc EXCEPT ![i] = IF result = <<>> THEN "rejected" ELSE "done"]
           /\ pageLog' = [pageLog EXCEPT ![i].llm = <<o>>]
  /\ landDone' = Append(landDone, i)
  /\ UNCHANGED <<mockVars, perfVars, croVars, extVars, uiVars, landReq, landPc, modelId, pageContent,
                 pageFetches, llmCalls, landResp>>

\* Promise.all rejected: the outer catch answers 500
LandRespondError ==
  /\ landPc = "analyzing"
  /\ \E i \in Index : pagePc[i] = "rejected"
  /\ landPc' = "done"
  /\ landResp' = <<LandResponse(500, <<>>, <<"URI malformed">>)>>
  /\ UNCHANGED <<mockVars, perfVars, croVars, extVars, uiVars, landReq, modelId, pagePc, pageContent,
                 pageResult, pageFetches, llmCalls, landDone, pageLog>>

\* every analysis is there: { analyses }, in the order of urls
LandRespond ==
  /\ landPc = "analyzing"
  /\ \A i \in Index : pagePc[i] = "done"
  /\ landPc' = "done"
  /\ landResp' = <<LandResponse(200, <<[i \in Index |-> pageResult[i][1]]>>, <<>>)>>
  /\ UNCHANGED <<mockVars, perfVars, croVars, extVars, uiVars, landReq, modelId, pagePc, pageContent,
                 pageResult, pageFetches, llmCalls, landDone, pageLog>>

NextLanding ==
  \/ LandPostMalformedBody
  \/ LandPostNoUrls
  \/ LandPost
  \/ ModelsSettle
  \/ \E i \in Index : PageFetchSettles(i)
  \/ BeginAnalysis
  \/ \E i \in Index : LlmSettles(i)
  \/ LandRespondError
  \/ LandRespond

SpecLanding == InitLanding /\ [][NextLanding]_vars

LandResponded == landResp # <<>>

\* the response carries analyses, one per url, entry i holding url i
OnePerUrl ==
  /\ landResp[1].analyses # <<>>
  /\ Len(landResp[1].analyses[1]) = Len(Urls)
  /\ \A i \in Index : landResp[1].analyses[1][i].url = Urls[i]

\* C1: every request whose body carries a list of urls is answered with an
\* analyses list that has exactly one entry per input url, entry i holding
\* the url of input i, whatever fails and in whatever order the per-url
\* operations complete.
C1_OneEntryPerUrl ==
  (LandResponded /\ landReq.kind = "list") => OnePerUrl

\* the response carries analyses; its entry for url i
Analysed == LandResponded /\ landResp[1].analyses # <<>>
Entry(i) == landResp[1].analyses[1][i]

\* what went wrong for url i: its page could not be fetched or held no text,
\* or the chat call failed, answered a non-success status, or its reply held
\* no JSON object that parses
FetchFailed(i) == pageLog[i].fetch[1].kind = "reject" \/ pageContent[i] = <<>>
ExtractionFailed(i) ==
  /\ ~FetchFailed(i)
  /\ \/ pageLog[i].llm[1].kind \in {"reject", "notOk", "badShape"}
     \/ pageLog[i].llm[1].text \in {T_sorry, T_broken}

\* the object a reply carries, read off the reply texts
ReplyObject(text) ==
  IF text = T_partial THEN JsonAnalysis(<<>>, <<TRUE>>, <<>>, <<>>, <<>>)
  ELSE JsonAnalysis(<<H_plans>>, <<TRUE>>, <<P_9>>, <<FALSE>>, <<TRUE>>)

SentinelRecord(headline) ==
  JsonAnalysis(<<headline>>, <<FALSE>>, <<S_NA>>, <<FALSE>>, <<FALSE>>)

\* C15: in a response that carries analyses, the entry of a url whose fetch
\* failed (or gave no text) is the sentinel 'Unable to fetch page', the entry
\* of a url whose extraction failed is the sentinel 'Analysis failed', and
\* every other entry is what its own reply holds, whatever happened to the
\* other urls.
C15_FailureStaysWithItsUrl ==
  Analysed =>
    \A i \in Index :
      /\ Entry(i).url = Urls[i]
      /\ Entry(i).analysis =
           IF FetchFailed(i) THEN SentinelRecord(S_unableToFetch)
           ELSE IF ExtractionFailed(i) THEN SentinelRecord(S_analysisFailed)
           ELSE ReplyObject(pageLog[i].llm[1].text)

\* two urls: the first page cannot be fetched, the second is analysed
C15_Witness ==
  /\ Analysed /\ Len(Urls) = 2
  /\ pageLog[1].fetch[1].kind = "reject"
  /\ Entry(1).analysis.mainHeadline = <<S_unableToFetch>>
  /\ pageLog[2].llm # <<>>
  /\ pageLog[2].llm[1].text = T_fenced
  /\ Entry(2).analysis.mainHeadline = <<H_plans>>

\* C16: every analysis record in a response has all five fields, mainHeadline,
\* hasPricing, pricingStartsFrom, hasDiscount and hasFreeTrial: a reply whose
\* object lacks some of them is not passed through.
C16_FiveFields ==
  Analysed =>
    \A i \in Index :
      LET a == Entry(i).analysis IN
      /\ a.mainHeadline # <<>> /\ a.hasPricing # <<>> /\ a.pricingStartsFrom # <<>>
      /\ a.hasDiscount # <<>> /\ a.hasFreeTrial # <<>>

\* an absolute http(s) URL: a scheme, something after it, no stray surrogate
WellFormedUrl(url) ==
  /\ \/ startsWith(url, S_https) /\ Len(url) > Len(S_https)
     \/ startsWith(url, S_http) /\ Len(url) > Len(S_http)
  /\ \A i \in DOMAIN url : url[i] # HighSurrogate

InvalidLandInput ==
  \/ landReq.kind \in {"malformed", "noUrls", "notArray"}
  \/ \E i \in Index : ~WellFormedUrl(Urls[i])

\* C17: the landing-page endpoint answers 400 exactly when the request is
\* invalid (body malformed, urls missing or not a list, or an entry that is
\* not a well-formed absolute http(s) URL): an invalid request is never
\* answered 200 or 500, and nothing else is answered 400.
C17_InvalidInputIs400 ==
  LandResponded => (landResp[1].status = 400 <=> InvalidLandInput)

\* C18: a valid request to the landing-page endpoint is always answered 200
\* with one analysis per url, whatever the model listing, the page fetches
\* and the chat calls do.
C18_ValidInputIs200 ==
  (LandResponded /\ ~InvalidLandInput) =>
    /\ landResp[1].status = 200
    /\ landResp[1].analyses # <<>>
    /\ Len(landResp[1].analyses[1]) = Len(Urls)

\* the analysis of url i has started: its record is there or its chat call
\* was sent
AnalysisStarted(i) == pageResult[i] # <<>> \/ llmCalls[i] > 0 \/ pagePc[i] = "rejected"
FetchSettled(i) == pageLog[i].fetch # <<>>

\* C19 as stated: a url whose own fetch has settled can go on to its analysis
\* at once, whether or not the fetches of the other urls have settled.
C19_NoOrderingDependency ==
  \A i \in Index :
    (landPc = "fetching" /\ FetchSettled(i)) => ENABLED BeginAnalysis

\* C19 amended: the analysis of a url starts only when the fetch of every url
\* of the batch has settled.
C19_AnalysisWaitsForAllFetches ==
  \A i \in Index : AnalysisStarted(i) => \A j \in Index : FetchSettled(j)

\* two urls: the chat call of the first was sent, after both fetches settled,
\* the second having failed
C19_Witness ==
  /\ Len(Urls) = 2
  /\ llmCalls[1] = 1
  /\ pageLog[2].fetch # <<>>
  /\ pageLog[2].fetch[1].kind = "reject"

(***************************************************************************)
(* Claims about the text extraction                                        *)
(***************************************************************************)
\* the page's text once it has been extracted
Text == extracted[1]

\* C20: for every page body the extracted text has at most 12,000
\* characters, does not begin with a whitespace character, and nowhere has
\* two whitespace characters next to each other
C20_ExtractedTextBounded ==
  extracted # <<>> =>
    /\ Len(Text) <= MaxContentLength
    /\ (Text # <<>> => ~isSpace(Text[1]))
    /\ \A i \in 1..(Len(Text) - 1) : ~(isSpace(Text[i]) /\ isSpace(Text[i + 1]))

\* a page longer than the limit whose body begins with whitespace and holds
\* a run of whitespace: its text fills the limit
C20_Witness ==
  /\ extracted # <<>>
  /\ Len(html) > MaxContentLength
  /\ isSpace(html[1])
  /\ \E i \in 1..(Len(html) - 1) : isSpace(html[i]) /\ isSpace(html[i + 1])
  /\ Len(Text) = MaxContentLength

\* C21: extracting the extracted text again returns it unchanged, also when
\* the first extraction cut the text at the limit
C21_Idempotent ==
  extracted # <<>> => textContent(Text) = Text

\* the positions of page at which an opening <tag ...> begins
OpeningTags(page, tag) ==
  LET low == toLowerCase(page)
      open == <<"<">> \o tag
  IN  {k \in 1..(Len(page) - Len(open) + 1) :
         /\ SubSeq(low, k, k + Len(open) - 1) = open
         /\ indexOfFrom(low, <<">">>, k + Len(open)) # 0}

\* the last position of the region that opens at k: the end of the first
\* closing tag after the opening tag, or the end of the page without one
RegionEnd(page, tag, k) ==
  LET low == toLowerCase(page)
      close == <<"<", "/">> \o tag \o <<">">>
      gt == indexOfFrom(low, <<">">>, k + Len(tag) + 1)
      c == indexOfFrom(low, close, gt + 1)
  IN  IF c = 0 THEN Len(page) ELSE c + Len(close) - 1

\* position i of page lies inside a script or style region
InRegion(page, i) ==
  \E tag \in {S_script, S_style} :
    \E k \in OpeningTags(page, tag) : k <= i /\ i <= RegionEnd(page, tag, k)

\* t holds '<', one or more characters other than '>', and '>'
HasTag(t) ==
  \E i \in 1..Len(t) : t[i] = "<" /\ indexOfFrom(t, <<">">>, i + 1) > i + 1

\* the characters of the text other than the spaces the extraction puts in
TextCharacters == {Text[i] : i \in 1..Len(Text)} \ {" "}

\* C22: the extracted text holds no character that the page has only inside
\* its script and style regions (a region runs from its opening tag to its
\* closing tag, or to the end of the page when the closing tag is missing),
\* and it holds no tag
C22_NoRegionTextNoTag ==
  extracted # <<>> =>
    /\ \A ch \in TextCharacters :
         \E i \in 1..Len(html) : html[i] = ch /\ ~InRegion(html, i)
    /\ ~HasTag(Text)

(***************************************************************************)
(* Both endpoints: one request to either of them                           *)
(***************************************************************************)
InitRequests == InitPerf \/ InitLanding

NextRequests ==
  \/ impl # None /\ NextPerf
  \/ landPc # None /\ NextLanding

SpecRequests == InitRequests /\ [][NextRequests]_vars

\* the page fetch of url i was rejected; its chat call failed or its reply
\* held no object that parses
PageRejected(i) == pageLog[i].fetch # <<>> /\ pageLog[i].fetch[1].kind = "reject"
ChatFailed(i) ==
  /\ pageLog[i].llm # <<>>
  /\ \/ pageLog[i].llm[1].kind \in {"reject", "notOk", "badShape"}
     \/ pageLog[i].llm[1].text \in {T_sorry, T_broken}

\* C23: nothing is retried. In a request to the landing-page endpoint every
\* url entry has at most one page fetch and at most one chat-completion
\* call; after a rejected fetch there is no chat call and the entry's result
\* can only be the 'Unable to fetch page' record; after a failed chat call
\* the entry is finished and its result can only be the 'Analysis failed'
\* record. In a request to the performance endpoint every site has at most
\* one request to the measurement API, and a site that got null or mock data
\* is finished.
C23_NoRetry ==
  /\ landPc # None =>
       \A i \in Index :
         /\ pageFetches[i] <= 1 /\ llmCalls[i] <= 1
         /\ PageRejected(i) =>
              /\ llmCalls[i] = 0
              /\ pagePc[i] \in {"fetched", "done", "rejected"}
              /\ pageResult[i] # <<>> =>
                   pageResult[i][1].analysis = SentinelRecord(S_unableToFetch)
         /\ ChatFailed(i) =>
              /\ pagePc[i] \in {"done", "rejected"}
              /\ pageResult[i] # <<>> =>
                   pageResult[i][1].analysis = SentinelRecord(S_analysisFailed)
  /\ impl # None =>
       \A s \in Sites :
         /\ apiRequests[s] <= 1
         /\ siteSource[s] \in {"null", "mock"} => sitePc[s] = "done"

\* a request for two urls has been answered: the first url's fetch was
\* rejected, the second's chat call failed, each happened once
C23_Witness ==
  /\ landPc # None /\ LandResponded /\ Len(Urls) = 2
  /\ PageRejected(1) /\ pageFetches[1] = 1 /\ llmCalls[1] = 0
  /\ ChatFailed(2) /\ pageFetches[2] = 1 /\ llmCalls[2] = 1

(***************************************************************************)
(* Claims about the performance endpoint's data source and insights        *)
(***************************************************************************)
\* USE_MOCK_DATA is 'true' or GOOGLE_PAGESPEED_API_KEY is absent
MockMode == env.useMock \/ ~env.apiKey

\* C24: the flags select the data source. In mock mode (USE_MOCK_DATA is
\* 'true' or the credential is absent) neither site sends a request to the
\* measurement API and both get mock data; outside mock mode each site sends
\* its request, and its data is the live reply or what the failure branch
\* returns.
C24_FlagsSelectSource ==
  \A s \in Sites :
    (sitePc[s] # "idle" /\ siteUrl[s] # NonString) =>
      IF MockMode
      THEN apiRequests[s] = 0 /\ sitePc[s] = "done" /\ siteSource[s] = "mock"
      ELSE /\ apiRequests[s] = 1
           /\ sitePc[s] = "done" => siteSource[s] \in {"live", "mock", "null"}

\* the templates of the sentences of a response, in their order
KindsOf(r) == [i \in DOMAIN r.insights |-> r.insights[i].kind]

\* the sentences after the first that the two results call for
CalledFor(y, c) ==
  SelectSeq(<<"lcp", "seo", "accessibility">>,
            LAMBDA k :
              \/ k = "lcp" /\ 10 * y.largestContentfulPaint > 12 * c.largestContentfulPaint
              \/ k = "seo" /\ y.seo < c.seo
              \/ k = "accessibility" /\ y.accessibility < c.accessibility)

\* C25: for two results that are there the insights are one performance
\* sentence (lead, deficit or similar), then the LCP sentence exactly when
\* your LCP exceeds 1.2 times the competitor's, then the SEO sentence exactly
\* when your SEO score is lower, then the accessibility sentence exactly when
\* your accessibility score is lower: one to four sentences.
C25_InsightOrder ==
  Compared =>
    LET r == perfResp[1] IN
    /\ Len(r.insights) \in 1..4
    /\ KindsOf(r)[1] \in {"perfLead", "perfBehind", "perfSimilar"}
    /\ Tail(KindsOf(r)) = CalledFor(r.yourSite[1], r.competitorSite[1])

\* your site leads in performance and LCP and trails in SEO and
\* accessibility: three sentences, none about LCP
C25_Witness ==
  /\ Compared
  /\ perfResp[1].yourSite[1].score > perfResp[1].competitorSite[1].score
  /\ perfResp[1].yourSite[1].largestContentfulPaint
       < perfResp[1].competitorSite[1].largestContentfulPaint
  /\ KindsOf(perfResp[1]) = <<"perfLead", "seo", "accessibility">>

\* analyzeWebsite returned null for site s
MeasuredNull(s) == sitePc[s] = "done" /\ siteSource[s] = "null"

NumberIn(str) ==
  LET at == {i \in 1..Len(str) : str[i] \in Digits}
      d == CHOOSE i \in at : \A j \in at : i <= j
      n == runLength(str, d, Digits \cup {"."})
  IN  parseFloatRun(SubSeq(str, d, d + n - 1)).milli

\* the results that show pricing and whose price string contains a number
Numbered ==
  {i \in DOMAIN croResults :
     /\ croResults[i].analysis.hasPricing
     /\ \E k \in DOMAIN croResults[i].analysis.pricingStartsFrom :
          croResults[i].analysis.pricingStartsFrom[k] \in Digits}

NumberOf(i) == NumberIn(croResults[i].analysis.pricingStartsFrom)
Smallest == CHOOSE m \in {NumberOf(i) : i \in Numbered} : \A j \in Numbered : m <= NumberOf(j)
Largest == CHOOSE m \in {NumberOf(i) : i \in Numbered} : \A j \in Numbered : m >= NumberOf(j)

\* C27: when at least two results that show pricing have a price string
\* containing a number, and the smallest of these numbers differs from the
\* largest, exactly one price insight comes out: it names a site with the
\* smallest number as lowest and a site with the largest as highest, and
\* gives the difference in percent of the lowest; 0 and strings that begin
\* with an invalid run of dots are prices like any other.
C27_PriceInsightWheneverPricesDiffer ==
  (Computed /\ Cardinality(Numbered) >= 2 /\ Smallest # Largest) =>
    /\ Cardinality(PriceInsights) = 1
    /\ \A k \in PriceInsights :
         \E lo \in Numbered, hi \in Numbered :
           /\ NumberOf(lo) = Smallest /\ NumberOf(hi) = Largest
           /\ Insights[k].first = <<getDomain(croResults[lo].url)>>
           /\ Insights[k].second = <<getDomain(croResults[hi].url)>>
           /\ Smallest # 0 =>
                Insights[k].numbers = <<RoundDiv((Largest - Smallest) * 100, Smallest)>>

(***************************************************************************)
(* The CRO analyzer page: the URL fields, handleAnalyze, resetAnalysis     *)
(***************************************************************************)
\* the most fields the form is given
MaxFields == 2

S_blank == <<" ">>

\* what a field can hold: nothing, a space, two URLs, a bare domain
FieldValues == {<<>>, S_blank, U_oxylabs, U_wwwBrightdata, D_brightdata}

\* urls.filter(url => url.trim() !== "")
validUrls(fields) == SelectSeq(fields, LAMBDA u : trim(u) # <<>>)

\* urlPattern that accepts every string
urlPattern_any(u) == TRUE

\* /^https?:\/\/.+/.test(u)
urlPattern(u) ==
  \/ startsWith(u, S_https) /\ Len(u) > Len(S_https) /\ u[Len(S_https) + 1] # "\n"
  \/ startsWith(u, S_http) /\ Len(u) > Len(S_http) /\ u[Len(S_http) + 1] # "\n"

E_noUrl == "Please enter at least one URL"
E_invalidUrl == "Please enter valid URLs starting with http:// or https://"
E_failed == "Failed to analyze landing pages"
E_format == "Invalid response format from API"
E_fetch == "Failed to fetch"
E_json == "Unexpected token < in JSON at position 0"
E_noModel == "No valid model found. Please check your Nexos AI API key and model access."

\* what the endpoint answers for a list of urls when it answers 200: one
\* result per url, in the order of the list
analysesFor(list) ==
  [i \in 1..Len(list) |->
     AnalysisResult(list[i], Analysis(H_plans, TRUE, P_10mo, FALSE, TRUE))]

\* how the fetch of handleAnalyze can end: it rejects, the body is not JSON,
\* or a response arrives
FetchResult(kind, response) == [kind |-> kind, response |-> response]
FetchResults(list) ==
  {FetchResult("reject", LandResponse(0, <<>>, <<>>)),
   FetchResult("badJson", LandResponse(500, <<>>, <<>>)),
   FetchResult("response", LandResponse(200, <<analysesFor(list)>>, <<>>)),
   FetchResult("response", LandResponse(200, <<>>, <<>>)),
   FetchResult("response", LandResponse(400, <<>>, <<"URLs array is required">>)),
   FetchResult("response", LandResponse(500, <<>>, <<E_noModel>>)),
   FetchResult("response", LandResponse(500, <<>>, <<>>))}

\* the try block of handleAnalyze after the fetch: the results it sets, or
\* the message its catch sets
Settled(list, message) == [results |-> list, error |-> message]
afterFetch(o) ==
  IF o.kind = "reject" THEN Settled(<<>>, <<E_fetch>>)
  ELSE IF o.kind = "badJson" THEN Settled(<<>>, <<E_json>>)
  ELSE IF o.response.status # 200
  THEN Settled(<<>>, IF o.response.error # <<>> THEN o.response.error ELSE <<E_failed>>)
  ELSE IF o.response.analyses # <<>> THEN Settled(o.response.analyses[1], <<>>)
  ELSE Settled(<<>>, <<E_format>>)

InitPage ==
  /\ MockIdle /\ PerfIdle /\ CroIdle /\ LandIdle /\ ExtIdle
  /\ urls = << <<>> >>
  /\ isAnalyzing = FALSE
  /\ uiResults = <<>>
  /\ error = <<>>
  /\ submitted = <<>>
  /\ lastEvent = "none"

\* addUrlField
AddUrlField ==
  /\ Len(urls) < MaxFields
  /\ urls' = Append(urls, <<>>)
  /\ lastEvent' = "add"
  /\ UNCHANGED <<mockVars, perfVars, croVars, landVars, extVars,
                 isAnalyzing, uiResults, error, submitted>>

\* RemoveUrlField without the test of urls.length
RemoveUrlField_unguarded(index) ==
  /\ urls' = [i \in 1..(Len(urls) - 1) |-> IF i < index THEN urls[i] ELSE urls[i + 1]]
  /\ lastEvent' = "remove"
  /\ UNCHANGED <<mockVars, perfVars, croVars, landVars, extVars,
                 isAnalyzing, uiResults, error, submitted>>

\* removeUrlField(index); its button is there when urls.length > 1
RemoveUrlField(index) ==
  /\ Len(urls) > 1
  /\ urls' = [i \in 1..(Len(urls) - 1) |-> IF i < index THEN urls[i] ELSE urls[i + 1]]
  /\ lastEvent' = "remove"
  /\ UNCHANGED <<mockVars, perfVars, croVars, landVars, extVars,
                 isAnalyzing, uiResults, error, submitted>>

\* updateUrl(index, value)
UpdateUrl(index, value) ==
  /\ urls[index] # value
  /\ urls' = [urls EXCEPT ![index] = value]
  /\ lastEvent' = "edit"
  /\ UNCHANGED <<mockVars, perfVars, croVars, landVars, extVars,
                 isAnalyzing, uiResults, error, submitted>>

\* handleAnalyze up to its fetch; the submit button is disabled while
\* isAnalyzing
HandleAnalyze ==
  /\ ~isAnalyzing
  /\ lastEvent' = "submit"
  /\ IF validUrls(urls) = <<>>
     THEN /\ error' = <<E_noUrl>>
          /\ UNCHANGED <<isAnalyzing, uiResults, submitted>>
     ELSE IF \E i \in DOMAIN validUrls(urls) : ~urlPattern(validUrls(urls)[i])
     THEN /\ error' = <<E_invalidUrl>>
          /\ UNCHANGED <<isAnalyzing, uiResults, submitted>>
     ELSE /\ error' = <<>>
          /\ isAnalyzing' = TRUE
          /\ uiResults' = <<>>
          /\ submitted' = <<urls>>
  /\ UNCHANGED <<mockVars, perfVars, croVars, landVars, extVars, urls>>

\* the fetch of handleAnalyze settles: try, catch, finally
FetchReturns ==
  /\ isAnalyzing
  /\ \E o \in FetchResults(validUrls(submitted[1])) :
       /\ uiResults' = afterFetch(o).results
       /\ error' = afterFetch(o).error
  /\ isAnalyzing' = FALSE
  /\ lastEvent' = "response"
  /\ UNCHANGED <<mockVars, perfVars, croVars, landVars, extVars, urls, submitted>>

\* resetAnalysis; its button is there when results.length > 0
ResetAnalysis ==
  /\ uiResults # <<>>
  /\ urls' = << <<>> >>
  /\ uiResults' = <<>>
  /\ error' = <<>>
  /\ lastEvent' = "reset"
  /\ UNCHANGED <<mockVars, perfVars, croVars, landVars, extVars, isAnalyzing, submitted>>

NextPage ==
  \/ AddUrlField
  \/ \E index \in DOMAIN urls : RemoveUrlField(index)
  \/ \E index \in DOMAIN urls, value \in FieldValues : UpdateUrl(index, value)
  \/ HandleAnalyze
  \/ FetchReturns
  \/ ResetAnalysis

SpecPage == InitPage /\ [][NextPage]_vars

\* the fetch of handleAnalyze settles at some time
SpecPageFair == SpecPage /\ WF_vars(FetchReturns)

(***************************************************************************)
(* Claims about the CRO analyzer page                                      *)
(***************************************************************************)
\* the analysis that last ended succeeded, or failed
EndedWell ==
  /\ submitted # <<>>
  /\ error = <<>> /\ uiResults = analysesFor(validUrls(submitted[1]))
EndedBadly == error # <<>> /\ uiResults = <<>>

PageInvariant ==
  /\ isAnalyzing => (uiResults = <<>> /\ error = <<>>)
  /\ Len(urls) >= 1
  /\ lastEvent = "response" => (~isAnalyzing /\ (EndedWell \/ EndedBadly))

\* C28: whatever the user does and however the request ends, while an
\* analysis is in flight results is empty and error is null, the form has at
\* least one URL field, and every analysis that started ends (its fetch
\* settling at some time) with isAnalyzing false and either the results set
\* or the error set and the results empty.
C28_PageStateConsistent ==
  /\ []PageInvariant
  /\ isAnalyzing ~> (~isAnalyzing /\ (EndedWell \/ EndedBadly))

\* an analysis of two fields has just ended in a failure
C28_Witness ==
  /\ lastEvent = "response" /\ ~isAnalyzing
  /\ submitted # <<>> /\ Len(submitted[1]) = 2
  /\ error = <<E_noModel>> /\ uiResults = <<>>

\* a field is blank; a field reads http:// or https:// and then something
Blank(u) == \A i \in DOMAIN u : isSpace(u[i])
MatchesHttp(u) ==
  \E prefix \in {S_http, S_https} :
    Len(u) > Len(prefix) /\ SubSeq(u, 1, Len(prefix)) = prefix

Submittable(fields) ==
  /\ \E i \in DOMAIN fields : ~Blank(fields[i])
  /\ \A i \in DOMAIN fields : ~Blank(fields[i]) => MatchesHttp(fields[i])

\* C29: a submit sends a request only when some field is non-blank and
\* every non-blank field matches ^https?://.+ ; any other submit sets the
\* error message and changes nothing else: results, isAnalyzing and the
\* fields stay, and no request is sent.
C29_SubmitValidates ==
  [][lastEvent' = "submit" =>
       IF Submittable(urls)
       THEN isAnalyzing' /\ submitted' = <<urls>>
       ELSE /\ error' # <<>>
            /\ UNCHANGED <<uiResults, isAnalyzing, urls, submitted>>]_vars

\* a submit of a URL next to a bare domain was turned down
C29_Witness ==
  /\ lastEvent = "submit" /\ ~isAnalyzing
  /\ urls = <<U_oxylabs, D_brightdata>>
  /\ error = <<E_invalidUrl>>

\* C30: the first result, which the insight engine takes for your site, is
\* the URL of the first field ('Enter your domain') as it was submitted.
C30_SubjectIsFirstField ==
  (lastEvent = "response" /\ uiResults # <<>>) =>
    uiResults[1].url = submitted[1][1]

====
